---- MODULE Spec2Model ----
(***************************************************************************)
(* Model of the shader recompiler core: the SSA IR (instructions, blocks,  *)
(* use counts), the program built by the IR emitter, and the SSA rewrite   *)
(* pass of Braun et al. (Pass::ReadVariable as an explicit work stack,     *)
(* Pass::SealBlock, Pass::TryRemoveTrivialPhi, VisitInst, VisitBlock,      *)
(* SsaRewritePass); the sparse-residency handling of the GLASM backend's    *)
(* image instructions (ImageSpec); and the polymorphic emit methods of     *)
(* IR::IREmitter (EmitterSpec).                                            *)
(***************************************************************************)
EXTENDS Integers, Sequences, FiniteSets, TLC

(***************************************************************************)
(* Bounds of the model.                                                    *)
(***************************************************************************)
\* largest immediate a generated SetRegister writes (immediates 0..MaxImm)
MaxImm == 1
\* longest CFG path (in blocks) along which the rewritten program is executed
MaxPath == 5
\* frames the ReadVariable work stack can hold before its allocation fails
MaxStack == 8

(***************************************************************************)
(* IR::Value: an immediate, a reference to an instruction, an opaque       *)
(* operand (register, predicate, label) or the empty value.                *)
(***************************************************************************)
Empty == [k |-> "empty", n |-> 0]

Imm32(n) == [k |-> "imm", n |-> n]

InstRef(i) == [k |-> "inst", n |-> i]

RegOperand(r) == [k |-> "reg", n |-> r]

PredOperand(p) == [k |-> "pred", n |-> p]

Label(b) == [k |-> "label", n |-> b]

IsEmpty(v) == v.k = "empty"

IsInst(v) == v.k = "inst"

\* IR::Reg::RZ and IR::Pred::PT, the sinks
RZ == 255

PT == 7

(***************************************************************************)
(* IR::Inst: opcode, operands (for a phi: phi_blocks[i] keys args[i]),     *)
(* use count, and, once ReplaceUsesWith made it an identity, the value it  *)
(* forwards to.                                                            *)
(***************************************************************************)
NewInst(op, args) == [op |-> op, args |-> args, phi_blocks |-> <<>>, uses |-> 0, fwd |-> Empty]

\* number of operand slots of instruction record r that hold the value v
SlotCount(r, v) == Cardinality({k \in 1..Len(r.args) : r.args[k] = v})

\* number of operand slots, over all instructions that are not invalidated, that
\* hold the value v
RECURSIVE SlotSumUpTo(_, _, _)
SlotSumUpTo(I, v, n) ==
    IF n = 0 THEN 0
    ELSE SlotSumUpTo(I, v, n - 1) + (IF I[n].op = "Invalid" THEN 0 ELSE SlotCount(I[n], v))

SlotSum(I, v) == SlotSumUpTo(I, v, Len(I))

\* use-count increment of instruction i by n
AddUses(I, i, n) == [I EXCEPT ![i].uses = @ + n]

\* Inst::Use for a value: immediates and opaque operands carry no use count
Use(I, v) == IF IsInst(v) THEN AddUses(I, v.n, 1) ELSE I

RECURSIVE UseAll(_, _)
UseAll(I, args) == IF args = <<>> THEN I ELSE UseAll(Use(I, Head(args)), Tail(args))

\* Value::Resolve: follow identities to the value they forward to
RECURSIVE ResolveN(_, _, _)
ResolveN(I, v, fuel) ==
    IF IsInst(v) /\ I[v.n].op = "Identity" /\ fuel > 0
    THEN ResolveN(I, I[v.n].fwd, fuel - 1)
    ELSE v

Resolve(I, v) == ResolveN(I, v, Len(I))

\* AddPhiOperand that appends the operand without counting the use
AddPhiOperand_NoUse(I, phi, pred, v) ==
    [I EXCEPT ![phi].args = Append(@, v), ![phi].phi_blocks = Append(@, pred)]

\* Inst::AddPhiOperand: ordered append keyed by the predecessor
AddPhiOperand(I, phi, pred, v) ==
    Use([I EXCEPT ![phi].args = Append(@, v), ![phi].phi_blocks = Append(@, pred)], v)

\* ReplaceUsesWith that turns the target into an identity and leaves its users alone
ReplaceUsesWith_KeepUsers(I, t, r) == [I EXCEPT ![t].op = "Identity", ![t].fwd = r]

\* Inst::ReplaceUsesWith: every operand slot holding the target now holds the
\* replacement (the slot of an identity is the value it forwards to), use counts
\* follow, and the target becomes an identity of the replacement
ReplaceUsesWith(I, t, r) ==
    LET moved == SlotSum(I, InstRef(t))
        J == [j \in 1..Len(I) |->
                [I[j] EXCEPT !.args = [k \in 1..Len(I[j].args) |->
                                        IF I[j].args[k] = InstRef(t) THEN r ELSE I[j].args[k]],
                             !.fwd = IF @ = InstRef(t) THEN r ELSE @]]
        K == [J EXCEPT ![t].uses = @ - moved, ![t].op = "Identity", ![t].fwd = r]
    IN  IF IsInst(r) THEN AddUses(K, r.n, moved) ELSE K

(***************************************************************************)
(* The pass's variables (std::variant Variant) and their order in a        *)
(* flat_map keyed by Variant: alternative index first, then payload.       *)
(***************************************************************************)
Variant(kind, idx) == [kind |-> kind, idx |-> idx]

Reg(r) == Variant("Reg", r)

Pred(p) == Variant("Pred", p)

ZeroFlagTag == Variant("ZFlag", 0)

SignFlagTag == Variant("SFlag", 0)

CarryFlagTag == Variant("CFlag", 0)

OverflowFlagTag == Variant("OFlag", 0)

GotoVariable(id) == Variant("Goto", id)

IndirectBranchVariable == Variant("Indirect", 0)

VariantIndex(kind) ==
    CASE kind = "Reg" -> 0
      [] kind = "Pred" -> 1
      [] kind = "ZFlag" -> 2
      [] kind = "SFlag" -> 3
      [] kind = "CFlag" -> 4
      [] kind = "OFlag" -> 5
      [] kind = "Goto" -> 6
      [] kind = "Indirect" -> 7

VariantLess(a, b) ==
    \/ VariantIndex(a.kind) < VariantIndex(b.kind)
    \/ VariantIndex(a.kind) = VariantIndex(b.kind) /\ a.idx < b.idx

\* UndefOpcode with the overload for flags chosen for every variable
UndefOpcode_Flag(var) == "UndefU1"

\* UndefOpcode with the overload for registers chosen for every variable
UndefOpcode_Word(var) == "UndefU32"

\* UndefOpcode overloads; GotoVariable derives from FlagTag
UndefOpcode(var) ==
    CASE var.kind = "Reg" -> "UndefU32"
      [] var.kind = "Pred" -> "UndefU1"
      [] var.kind \in {"ZFlag", "SFlag", "CFlag", "OFlag", "Goto"} -> "UndefU1"
      [] var.kind = "Indirect" -> "UndefU32"

GetOpcode(kind) ==
    CASE kind = "Reg" -> "GetRegister"
      [] kind = "Pred" -> "GetPred"
      [] kind = "ZFlag" -> "GetZFlag"
      [] kind = "SFlag" -> "GetSFlag"
      [] kind = "CFlag" -> "GetCFlag"
      [] kind = "OFlag" -> "GetOFlag"
      [] kind = "Goto" -> "GetGotoVariable"
      [] kind = "Indirect" -> "GetIndirectBranchVariable"

SetOpcode(kind) ==
    CASE kind = "Reg" -> "SetRegister"
      [] kind = "Pred" -> "SetPred"
      [] kind = "ZFlag" -> "SetZFlag"
      [] kind = "SFlag" -> "SetSFlag"
      [] kind = "CFlag" -> "SetCFlag"
      [] kind = "OFlag" -> "SetOFlag"
      [] kind = "Goto" -> "SetGotoVariable"
      [] kind = "Indirect" -> "SetIndirectBranchVariable"

GetOpcodes == {"GetRegister", "GetPred", "GetZFlag", "GetSFlag", "GetCFlag", "GetOFlag",
               "GetGotoVariable", "GetIndirectBranchVariable"}

SetOpcodes == {"SetRegister", "SetPred", "SetZFlag", "SetSFlag", "SetCFlag", "SetOFlag",
               "SetGotoVariable", "SetIndirectBranchVariable"}

\* operand that names the variable in a Get*/Set* instruction (none for flags)
VarOperands(var) ==
    CASE var.kind = "Reg" -> <<RegOperand(var.idx)>>
      [] var.kind = "Pred" -> <<PredOperand(var.idx)>>
      [] var.kind = "Goto" -> <<Imm32(var.idx)>>
      [] OTHER -> <<>>

(***************************************************************************)
(* The program under construction: the instruction arena `insts`, each     *)
(* block's instruction list `list` and immediate predecessors `preds`.     *)
(* The IR emitter appends to the current block.                            *)
(***************************************************************************)
EmptyProgram(n) ==
    [insts |-> <<>>, list |-> [b \in 1..n |-> <<>>], preds |-> [b \in 1..n |-> <<>>]]

\* IREmitter::Inst: a new instruction at the end of block b; its operands gain a use
Inst(P, b, op, args) ==
    [P EXCEPT !.insts = Append(UseAll(P.insts, args), NewInst(op, args)),
              !.list[b] = Append(@, Len(P.insts) + 1)]

\* the value of the instruction Inst(P, ...) creates
Result(P) == InstRef(Len(P.insts) + 1)

\* Block::AddImmediatePredecessor: insertion order kept, no duplicates
AddImmediatePredecessor(P, label, b) ==
    IF \E k \in 1..Len(P.preds[label]) : P.preds[label][k] = b
    THEN P
    ELSE [P EXCEPT !.preds[label] = Append(@, b)]

GetVar(P, b, var) == Inst(P, b, GetOpcode(var.kind), VarOperands(var))

SetVar(P, b, var, value) == Inst(P, b, SetOpcode(var.kind), VarOperands(var) \o <<value>>)

IAdd(P, b, x, y) == Inst(P, b, "IAdd32", <<x, y>>)

Branch(P, b, label) ==
    Inst(AddImmediatePredecessor(P, label, b), b, "Branch", <<Label(label)>>)

\* BranchConditional that records the block as a predecessor of the true label only
BranchConditional_TrueOnly(P, b, condition, true_label, false_label) ==
    Inst(AddImmediatePredecessor(P, true_label, b),
         b, "BranchConditional", <<condition, Label(true_label), Label(false_label)>>)

BranchConditional(P, b, condition, true_label, false_label) ==
    Inst(AddImmediatePredecessor(AddImmediatePredecessor(P, true_label, b), false_label, b),
         b, "BranchConditional", <<condition, Label(true_label), Label(false_label)>>)

Return(P, b) == Inst(P, b, "Return", <<>>)

(***************************************************************************)
(* What the translator emits for one statement of a block:                 *)
(*   get v        GetX(v)                                                  *)
(*   set v n      SetX(v, imm32(n))                                        *)
(*   inc v        SetX(v, IAdd(GetX(v), imm32(1)))                         *)
(*   add d a b    SetX(d, IAdd(GetX(a), GetX(b)))                          *)
(***************************************************************************)
StGet(v) == [t |-> "get", d |-> v, a |-> v, b |-> v, n |-> 0]

StSet(v, n) == [t |-> "set", d |-> v, a |-> v, b |-> v, n |-> n]

StInc(v) == [t |-> "inc", d |-> v, a |-> v, b |-> v, n |-> 1]

StAdd(d, a, b) == [t |-> "add", d |-> d, a |-> a, b |-> b, n |-> 0]

EmitStatement(P, b, st) ==
    CASE st.t = "get" -> GetVar(P, b, st.d)
      [] st.t = "set" -> SetVar(P, b, st.d, Imm32(st.n))
      [] st.t = "inc" ->
            LET P1 == GetVar(P, b, st.d)
                P2 == IAdd(P1, b, Result(P), Imm32(st.n))
            IN  SetVar(P2, b, st.d, Result(P1))
      [] st.t = "add" ->
            LET P1 == GetVar(P, b, st.a)
                P2 == GetVar(P1, b, st.b)
                P3 == IAdd(P2, b, Result(P), Result(P1))
            IN  SetVar(P3, b, st.d, Result(P2))

RECURSIVE EmitStatements(_, _, _)
EmitStatements(P, b, sts) ==
    IF sts = <<>> THEN P ELSE EmitStatements(EmitStatement(P, b, Head(sts)), b, Tail(sts))

\* the block's terminator: Return, Branch, or BranchConditional on an immediate
\* (cond < 0) or on the read of predicate cond
EmitTerminator(P, b, succs, cond) ==
    CASE Len(succs) = 0 -> Return(P, b)
      [] Len(succs) = 1 -> Branch(P, b, succs[1])
      [] Len(succs) = 2 ->
            IF cond < 0
            THEN BranchConditional(P, b, Imm32(1), succs[1], succs[2])
            ELSE BranchConditional(GetVar(P, b, Pred(cond)), b, Result(P), succs[1], succs[2])

\* a program description D: per block its successors, statements and branch condition
RECURSIVE EmitBlocks(_, _, _)
EmitBlocks(P, D, b) ==
    IF b > Len(D.succ) THEN P
    ELSE EmitBlocks(EmitTerminator(EmitStatements(P, b, D.code[b]), b, D.succ[b], D.cond[b]),
                    D, b + 1)

Translate(D) == EmitBlocks(EmptyProgram(Len(D.succ)), D, 1)

(***************************************************************************)
(* Post-order of the blocks reachable from the entry block (block 1), by   *)
(* depth-first search following each block's successors in order.          *)
(***************************************************************************)
RECURSIVE DfsVisit(_, _, _)
RECURSIVE DfsSuccessors(_, _, _)
DfsVisit(succ, b, st) ==
    LET inner == DfsSuccessors(succ, succ[b], [st EXCEPT !.seen = @ \cup {b}])
    IN  [inner EXCEPT !.po = Append(@, b)]

DfsSuccessors(succ, ss, st) ==
    IF ss = <<>> THEN st
    ELSE DfsSuccessors(succ, Tail(ss),
                       IF Head(ss) \in st.seen THEN st ELSE DfsVisit(succ, Head(ss), st))

PostOrder(succ) == DfsVisit(succ, 1, [seen |-> {}, po |-> <<>>]).po

Reverse(q) == [k \in 1..Len(q) |-> q[Len(q) + 1 - k]]

(***************************************************************************)
(* Block::InstructionList operations.                                      *)
(***************************************************************************)
\* position of instruction i in the list q, Len(q) + 1 when absent
RECURSIVE IndexOf(_, _, _)
IndexOf(q, i, k) == IF k > Len(q) \/ q[k] = i THEN k ELSE IndexOf(q, i, k + 1)

InsertAt(q, pos, i) == SubSeq(q, 1, pos - 1) \o <<i>> \o SubSeq(q, pos, Len(q))

Erase(q, i) == LET pos == IndexOf(q, i, 1) IN SubSeq(q, 1, pos - 1) \o SubSeq(q, pos + 1, Len(q))

\* the instruction after i in the list q, 0 at the end of the list
NextInst(q, i) == LET pos == IndexOf(q, i, 1) IN IF pos < Len(q) THEN q[pos + 1] ELSE 0

FirstInst(q) == IF q = <<>> THEN 0 ELSE q[1]

IsPhi(I, i) == I[i].op = "Phi"

\* std::ranges::find_if_not(list, IsPhi): position of the first non-phi instruction
RECURSIVE FirstNotPhi(_, _, _)
FirstNotPhi(I, q, k) == IF k > Len(q) \/ ~IsPhi(I, q[k]) THEN k ELSE FirstNotPhi(I, q, k + 1)

\* Block::PrependNewInst: a new operand-less instruction before position pos of
\* block b; M is any record with fields insts and list
PrependNewInst(M, b, pos, op) ==
    [M EXCEPT !.insts = Append(@, NewInst(op, <<>>)),
              !.list[b] = InsertAt(@, pos, Len(M.insts) + 1)]

\* Inst::NumArgs and Inst::Arg: a phi has the operands added to it so far, an
\* identity has one operand, the value it forwards to
Args(I, i) == IF I[i].op = "Identity" THEN <<I[i].fwd>> ELSE I[i].args

(***************************************************************************)
(* Pass::TryRemoveTrivialPhi.  The scan of the operands yields the unique  *)
(* operand `same`, or reports that the phi merges two values.              *)
(***************************************************************************)
\* ScanPhi without the test `!same.IsEmpty()`: the last operand that differs wins
RECURSIVE ScanPhi_LastOperand(_, _, _, _)
ScanPhi_LastOperand(I, phi, arg_index, same) ==
    IF arg_index > Len(Args(I, phi)) THEN [trivial |-> TRUE, same |-> same]
    ELSE LET op == Args(I, phi)[arg_index]
         IN  IF Resolve(I, op) = Resolve(I, same) \/ op = InstRef(phi)
             THEN ScanPhi_LastOperand(I, phi, arg_index + 1, same)
             ELSE ScanPhi_LastOperand(I, phi, arg_index + 1, op)

RECURSIVE ScanPhi(_, _, _, _)
ScanPhi(I, phi, arg_index, same) ==
    IF arg_index > Len(Args(I, phi)) THEN [trivial |-> TRUE, same |-> same]
    ELSE LET op == Args(I, phi)[arg_index]
         IN  IF Resolve(I, op) = Resolve(I, same) \/ op = InstRef(phi)
             THEN ScanPhi(I, phi, arg_index + 1, same)
             ELSE IF ~IsEmpty(same)
                  THEN [trivial |-> FALSE, same |-> same]
                  ELSE ScanPhi(I, phi, arg_index + 1, op)

\* the phi is unreachable or in the start block: an undef after all phi nodes,
\* followed by the phi itself
InsertUndef(M, phi, block, undef_opcode) ==
    LET erased == Erase(M.list[block], phi)
        first_not_phi == FirstNotPhi(M.insts, erased, 1)
        M1 == PrependNewInst([M EXCEPT !.list[block] = erased], block, first_not_phi,
                             undef_opcode)
    IN  [M1 EXCEPT !.list[block] = InsertAt(@, first_not_phi + 1, phi)]

\* TryRemoveTrivialPhi without the test `same.IsEmpty()`: every trivial phi gets an undef
TryRemoveTrivialPhi_AlwaysUndef(M, phi, block, undef_opcode) ==
    LET scan == ScanPhi(M.insts, phi, 1, Empty)
    IN  IF ~scan.trivial THEN [M EXCEPT !.result = InstRef(phi)]
        ELSE LET M1 == InsertUndef(M, phi, block, undef_opcode)
                 same == InstRef(Len(M.insts) + 1)
             IN  [M1 EXCEPT !.insts = ReplaceUsesWith(@, phi, same), !.result = same]

\* returns M with field result set to the value TryRemoveTrivialPhi returns
TryRemoveTrivialPhi(M, phi, block, undef_opcode) ==
    LET scan == ScanPhi(M.insts, phi, 1, Empty)
    IN  IF ~scan.trivial THEN [M EXCEPT !.result = InstRef(phi)]
        ELSE LET M1 == IF IsEmpty(scan.same) THEN InsertUndef(M, phi, block, undef_opcode)
                       ELSE M
                 same == IF IsEmpty(scan.same) THEN InstRef(Len(M.insts) + 1) ELSE scan.same
             IN  [M1 EXCEPT !.insts = ReplaceUsesWith(@, phi, same), !.result = same]

(***************************************************************************)
(* State.  The IR: insts, list, preds, succ, post_order_blocks.  The Pass  *)
(* object: current_def, incomplete_phis, sealed_blocks.  The position of   *)
(* SsaRewritePass: block_it (index into the reversed post-order), inst_it  *)
(* (the instruction VisitBlock is at, 0 at the end of the list), the       *)
(* ReadVariable work stack with the variable read and its caller, and      *)
(* SealBlock's position seal_it / imm_pred_it.  `input` is the program     *)
(* description the translator was given and `source` the program it        *)
(* emitted, as SsaRewritePass received it.  `created` is a history         *)
(* variable: for each instruction the pass created, the variable and block *)
(* it was created for and the Get* whose read created it (0 when SealBlock *)
(* did).                                                                   *)
(***************************************************************************)
VARIABLES input, source, insts, list, preds, succ, post_order_blocks,
          current_def, incomplete_phis, sealed_blocks,
          pc, block_it, inst_it, stack, variable, seal_it, imm_pred_it, created,
          ctx, emitted, objects

ir == <<insts, list>>

cfg == <<input, source, preds, succ, post_order_blocks>>

\* state of the components the pass does not touch: the EmitContext of the GLASM
\* backend, the last call of an IREmitter method with what it returned or threw,
\* and the ScopedRegister objects of the GLASM backend
outside == <<ctx, emitted, objects>>

vars == <<input, source, insts, list, preds, succ, post_order_blocks, current_def, incomplete_phis,
          sealed_blocks, pc, block_it, inst_it, stack, variable, seal_it, imm_pred_it,
          created, ctx, emitted, objects>>

\* no code emitted, no register defined
NoContext == [code |-> <<>>, defined |-> {}]

\* no IREmitter method called yet
NoCall == <<>>

\* no ScopedRegister object exists
NoObjects == <<>>

\* the instructions this step appended to the arena were created for (var, block)
RecordCreated(var, block) ==
    created' = created \cup {[inst |-> i, var |-> var, block |-> block, by |-> inst_it] :
                                i \in (Len(insts) + 1)..Len(insts')}

Blocks == 1..Len(succ)

\* the blocks in the order SsaRewritePass visits them
VisitOrder == Reverse(post_order_blocks)

CurrentBlock == VisitOrder[block_it]

ReadState(block) == [block |-> block, result |-> Empty, phi |-> 0, pred_it |-> 0, pc |-> "Start"]

\* the mutable part of the state a ReadVariable step works on
Machine ==
    [insts |-> insts, list |-> list, current_def |-> current_def,
     incomplete_phis |-> incomplete_phis, stack |-> stack, result |-> Empty]

Commit(M) ==
    /\ insts' = M.insts
    /\ list' = M.list
    /\ current_def' = M.current_def
    /\ incomplete_phis' = M.incomplete_phis
    /\ stack' = M.stack

Back(M) == M.stack[Len(M.stack)]

PopBack(M) == [M EXCEPT !.stack = SubSeq(@, 1, Len(@) - 1)]

EmplaceBack(M, block) == [M EXCEPT !.stack = Append(@, ReadState(block))]

SetBackResult(M, value) == [M EXCEPT !.stack[Len(M.stack)].result = value]

\* WriteVariable with one map per kind of variable instead of one per variable
WriteVariable_PerKind(M, var, block, value) ==
    [M EXCEPT !.current_def =
        [w \in DOMAIN @ |-> IF w.kind = var.kind THEN [@[w] EXCEPT ![block] = value]
                                                 ELSE @[w]]]

\* Pass::WriteVariable
WriteVariable(M, var, block, value) == [M EXCEPT !.current_def[var][block] = value]

\* SetValue without the WriteVariable: the result is passed on but not cached
SetValue_NoWrite(M, var) == SetBackResult(PopBack(M), Back(M).result)

\* case Status::SetValue of Pass::ReadVariable
SetValue(M, var) ==
    LET block == Back(M).block
        result == Back(M).result
    IN  SetBackResult(PopBack(WriteVariable(M, var, block, result)), result)

\* the lambda prepare_phi_operand of Pass::ReadVariable
PreparePhiOperand(M, var) ==
    LET top == Back(M)
        block == top.block
    IN  IF top.pred_it = Len(preds[block]) + 1
        THEN LET M1 == TryRemoveTrivialPhi(M, top.phi, block, UndefOpcode(var))
             IN  WriteVariable(SetBackResult(PopBack(M1), M1.result), var, block, M1.result)
        ELSE EmplaceBack([M EXCEPT !.stack[Len(M.stack)].pc = "PushPhiArgument"],
                         preds[block][top.pred_it])

(***************************************************************************)
(* Pass::ReadVariable, one action per case of its switch.  The sentinel    *)
(* frame is stack[1]; the loop runs while stack.size() > 1.                *)
(***************************************************************************)
Reading == pc = "ReadVariable" /\ Len(stack) > 1

ReadFrame == <<cfg, outside, sealed_blocks, pc, block_it, inst_it, variable, seal_it, imm_pred_it>>

\* the block of the frame on top of the work stack
BackBlock == stack[Len(stack)].block

\* case Status::Start, current_def has the block: falls through to SetValue
ReadStartDefined ==
    /\ Reading
    /\ Back(Machine).pc = "Start"
    /\ ~IsEmpty(current_def[variable][Back(Machine).block])
    /\ Commit(SetValue(SetBackResult(Machine, current_def[variable][Back(Machine).block]),
                       variable))
    /\ UNCHANGED ReadFrame
    /\ RecordCreated(variable, BackBlock)

\* case Status::Start, block not sealed (incomplete CFG): falls through to SetValue
ReadStartIncomplete ==
    /\ Reading
    /\ Back(Machine).pc = "Start"
    /\ IsEmpty(current_def[variable][Back(Machine).block])
    /\ Back(Machine).block \notin sealed_blocks
    /\ LET block == Back(Machine).block
           phi == Len(insts) + 1
           M1 == PrependNewInst(Machine, block, 1, "Phi")
           M2 == [M1 EXCEPT !.incomplete_phis[block][variable] = phi]
       IN  Commit(SetValue(SetBackResult(M2, InstRef(phi)), variable))
    /\ UNCHANGED ReadFrame
    /\ RecordCreated(variable, BackBlock)

\* case Status::Start, sealed block with one predecessor: no phi needed
ReadStartOnePredecessor ==
    /\ Reading
    /\ Back(Machine).pc = "Start"
    /\ IsEmpty(current_def[variable][Back(Machine).block])
    /\ Back(Machine).block \in sealed_blocks
    /\ Len(preds[Back(Machine).block]) = 1
    /\ Len(stack) < MaxStack
    /\ Commit(EmplaceBack([Machine EXCEPT !.stack[Len(stack)].pc = "SetValue"],
                          preds[Back(Machine).block][1]))
    /\ UNCHANGED ReadFrame
    /\ RecordCreated(variable, BackBlock)

\* case Status::Start, sealed block with one predecessor, when the work stack cannot
\* grow any more: emplace_back throws and the pass is abandoned
ReadStackExhausted ==
    /\ Reading
    /\ Back(Machine).pc = "Start"
    /\ IsEmpty(current_def[variable][Back(Machine).block])
    /\ Back(Machine).block \in sealed_blocks
    /\ Len(preds[Back(Machine).block]) = 1
    /\ Len(stack) >= MaxStack
    /\ pc' = "BadAlloc"
    /\ UNCHANGED <<cfg, outside, ir, current_def, incomplete_phis, sealed_blocks, block_it, inst_it,
                   stack, variable, seal_it, imm_pred_it, created>>

\* case Status::Start, sealed block: break potential cycles with operandless phi
ReadStartPhi ==
    /\ Reading
    /\ Back(Machine).pc = "Start"
    /\ IsEmpty(current_def[variable][Back(Machine).block])
    /\ Back(Machine).block \in sealed_blocks
    /\ Len(preds[Back(Machine).block]) # 1
    /\ LET block == Back(Machine).block
           phi == Len(insts) + 1
           M1 == WriteVariable(PrependNewInst(Machine, block, 1, "Phi"), variable, block,
                               InstRef(phi))
           M2 == [M1 EXCEPT !.stack[Len(stack)].phi = phi, !.stack[Len(stack)].pred_it = 1]
       IN  Commit(PreparePhiOperand(M2, variable))
    /\ UNCHANGED ReadFrame
    /\ RecordCreated(variable, BackBlock)

\* case Status::SetValue
ReadSetValue ==
    /\ Reading
    /\ Back(Machine).pc = "SetValue"
    /\ Commit(SetValue(Machine, variable))
    /\ UNCHANGED ReadFrame
    /\ RecordCreated(variable, BackBlock)

\* case Status::PushPhiArgument, falling through to PreparePhiArgument
ReadPushPhiArgument ==
    /\ Reading
    /\ Back(Machine).pc = "PushPhiArgument"
    /\ LET top == Back(Machine)
           M1 == [Machine EXCEPT
                    !.insts = AddPhiOperand(@, top.phi, preds[top.block][top.pred_it],
                                            top.result),
                    !.stack[Len(stack)].pred_it = @ + 1]
       IN  Commit(PreparePhiOperand(M1, variable))
    /\ UNCHANGED ReadFrame
    /\ RecordCreated(variable, BackBlock)

(***************************************************************************)
(* VisitInst and VisitBlock.                                               *)
(***************************************************************************)
\* the variable a Get*/Set* instruction names
VariableOf(r) ==
    CASE r.op \in {"GetRegister", "SetRegister"} -> Reg(r.args[1].n)
      [] r.op \in {"GetPred", "SetPred"} -> Pred(r.args[1].n)
      [] r.op \in {"GetGotoVariable", "SetGotoVariable"} -> GotoVariable(r.args[1].n)
      [] r.op \in {"GetIndirectBranchVariable", "SetIndirectBranchVariable"} ->
            IndirectBranchVariable
      [] r.op \in {"GetZFlag", "SetZFlag"} -> ZeroFlagTag
      [] r.op \in {"GetSFlag", "SetSFlag"} -> SignFlagTag
      [] r.op \in {"GetCFlag", "SetCFlag"} -> CarryFlagTag
      [] r.op \in {"GetOFlag", "SetOFlag"} -> OverflowFlagTag

\* IsSink that takes no variable for a sink
IsSink_Never(var) == FALSE

\* reg != IR::Reg::RZ, pred != IR::Pred::PT
IsSink(var) == var = Reg(RZ) \/ var = Pred(PT)

\* WrittenValue taking Arg(0), the operand that names the variable
WrittenValue_FirstArg(r) == r.args[1]

\* the value a Set* instruction writes: its last operand
WrittenValue(r) == r.args[Len(r.args)]

Visiting == pc = "VisitBlock" /\ inst_it # 0

AdvanceInst == inst_it' = NextInst(list'[CurrentBlock], inst_it)

\* VisitInst, the Set* cases
VisitSet ==
    /\ Visiting
    /\ insts[inst_it].op \in SetOpcodes
    /\ LET var == VariableOf(insts[inst_it])
       IN  current_def' = IF IsSink(var) THEN current_def
                          ELSE [current_def EXCEPT ![var][CurrentBlock] =
                                                      WrittenValue(insts[inst_it])]
    /\ UNCHANGED <<cfg, outside, ir, incomplete_phis, sealed_blocks, pc, block_it, stack, variable,
                   seal_it, imm_pred_it, created>>
    /\ AdvanceInst

\* VisitInst, the Get* cases: the call of ReadVariable
VisitGet ==
    /\ Visiting
    /\ insts[inst_it].op \in GetOpcodes
    /\ LET var == VariableOf(insts[inst_it])
       IN  IF IsSink(var)
           THEN /\ UNCHANGED <<pc, stack, variable, list>>
                /\ AdvanceInst
           ELSE /\ pc' = "ReadVariable"
                /\ variable' = var
                /\ stack' = <<ReadState(0), ReadState(CurrentBlock)>>
                /\ UNCHANGED <<inst_it, list>>
    /\ UNCHANGED <<cfg, outside, insts, current_def, incomplete_phis, sealed_blocks, block_it,
                   seal_it, imm_pred_it, created>>

\* VisitGetReplace that discards the value ReadVariable returned
VisitGetReplace_Dropped ==
    /\ pc = "ReadVariable"
    /\ Len(stack) = 1
    /\ inst_it # 0
    /\ pc' = "VisitBlock"
    /\ stack' = <<>>
    /\ UNCHANGED <<cfg, outside, ir, current_def, incomplete_phis, sealed_blocks, block_it,
                   variable, seal_it, imm_pred_it, created>>
    /\ AdvanceInst

\* VisitInst, the Get* cases: inst.ReplaceUsesWith(the value ReadVariable returned)
VisitGetReplace ==
    /\ pc = "ReadVariable"
    /\ Len(stack) = 1
    /\ inst_it # 0
    /\ insts' = ReplaceUsesWith(insts, inst_it, stack[1].result)
    /\ pc' = "VisitBlock"
    /\ stack' = <<>>
    /\ UNCHANGED <<cfg, outside, list, current_def, incomplete_phis, sealed_blocks, block_it,
                   variable, seal_it, imm_pred_it, created>>
    /\ AdvanceInst

\* VisitInst, default case
VisitOther ==
    /\ Visiting
    /\ insts[inst_it].op \notin SetOpcodes \cup GetOpcodes
    /\ UNCHANGED <<cfg, outside, ir, current_def, incomplete_phis, sealed_blocks, pc, block_it, stack,
                   variable, seal_it, imm_pred_it, created>>
    /\ AdvanceInst

(***************************************************************************)
(* Pass::SealBlock and Pass::AddPhiOperands.  The range-for of SealBlock   *)
(* walks incomplete_phis[block] in the order of its keys.                  *)
(***************************************************************************)
RECURSIVE SortVariants(_)
SortVariants(S) ==
    IF S = {} THEN <<>>
    ELSE LET least == CHOOSE v \in S : \A w \in S \ {v} : VariantLess(v, w)
         IN  <<least>> \o SortVariants(S \ {least})

IncompleteVariables(block) ==
    SortVariants({v \in DOMAIN incomplete_phis[block] : incomplete_phis[block][v] # 0})

\* SealBlockBegin with sealed_blocks.insert(block) moved to the start of SealBlock
SealBlockBegin_SealsFirst ==
    /\ pc = "VisitBlock"
    /\ inst_it = 0
    /\ pc' = "SealBlock"
    /\ seal_it' = 1
    /\ imm_pred_it' = 1
    /\ sealed_blocks' = sealed_blocks \cup {CurrentBlock}
    /\ UNCHANGED <<cfg, outside, ir, current_def, incomplete_phis, block_it, inst_it,
                   stack, variable, created>>

\* VisitBlock: the instructions are visited, SealBlock is called
SealBlockBegin ==
    /\ pc = "VisitBlock"
    /\ inst_it = 0
    /\ pc' = "SealBlock"
    /\ seal_it' = 1
    /\ imm_pred_it' = 1
    /\ UNCHANGED <<cfg, outside, ir, current_def, incomplete_phis, sealed_blocks, block_it, inst_it,
                   stack, variable, created>>

Sealing == pc = "SealBlock" /\ seal_it <= Len(IncompleteVariables(CurrentBlock))

\* AddPhiOperands: ReadVariable(variable, imm_pred) for the next predecessor
AddPhiOperandsRead ==
    /\ Sealing
    /\ imm_pred_it <= Len(preds[CurrentBlock])
    /\ pc' = "ReadVariable"
    /\ variable' = IncompleteVariables(CurrentBlock)[seal_it]
    /\ stack' = <<ReadState(0), ReadState(preds[CurrentBlock][imm_pred_it])>>
    /\ UNCHANGED <<cfg, outside, ir, current_def, incomplete_phis, sealed_blocks, block_it, inst_it,
                   seal_it, imm_pred_it, created>>

\* AddPhiOperands: phi.AddPhiOperand(imm_pred, the value ReadVariable returned)
AddPhiOperandsPush ==
    /\ pc = "ReadVariable"
    /\ Len(stack) = 1
    /\ inst_it = 0
    /\ insts' = AddPhiOperand(insts, incomplete_phis[CurrentBlock][variable],
                              preds[CurrentBlock][imm_pred_it], stack[1].result)
    /\ imm_pred_it' = imm_pred_it + 1
    /\ pc' = "SealBlock"
    /\ stack' = <<>>
    /\ UNCHANGED <<cfg, outside, list, current_def, incomplete_phis, sealed_blocks, block_it, inst_it,
                   variable, seal_it, created>>

\* AddPhiOperands: return TryRemoveTrivialPhi(phi, block, UndefOpcode(variable))
AddPhiOperandsEnd ==
    /\ Sealing
    /\ imm_pred_it > Len(preds[CurrentBlock])
    /\ LET var == IncompleteVariables(CurrentBlock)[seal_it]
           M == TryRemoveTrivialPhi(Machine, incomplete_phis[CurrentBlock][var], CurrentBlock,
                                    UndefOpcode(var))
       IN  /\ insts' = M.insts
           /\ list' = M.list
           /\ RecordCreated(var, CurrentBlock)
    /\ seal_it' = seal_it + 1
    /\ imm_pred_it' = 1
    /\ UNCHANGED <<cfg, outside, current_def, incomplete_phis, sealed_blocks, pc, block_it, inst_it,
                   stack, variable>>

\* SealBlock: sealed_blocks.insert(block); SsaRewritePass goes to the next block
SealBlockEnd ==
    /\ pc = "SealBlock"
    /\ seal_it > Len(IncompleteVariables(CurrentBlock))
    /\ sealed_blocks' = sealed_blocks \cup {CurrentBlock}
    /\ IF block_it < Len(post_order_blocks)
       THEN /\ block_it' = block_it + 1
            /\ inst_it' = FirstInst(list[VisitOrder[block_it + 1]])
            /\ pc' = "VisitBlock"
       ELSE /\ pc' = "Done"
            /\ UNCHANGED <<block_it, inst_it>>
    /\ UNCHANGED <<cfg, outside, ir, current_def, incomplete_phis, stack, variable, seal_it,
                   imm_pred_it, created>>

(***************************************************************************)
(* The programs the pass is run on.                                        *)
(***************************************************************************)
Description(successors, code, cond) == [succ |-> successors, code |-> code, cond |-> cond]

NoCond(n) == [b \in 1..n |-> 0 - 1]

\* straight-line code in one block
StraightLine ==
    Description(<< <<>> >>,
                << <<StSet(Reg(3), 7), StSet(Reg(4), 5), StAdd(Reg(5), Reg(3), Reg(4))>> >>,
                NoCond(1))

\* entry (1) branches to A (2) or B (3), both branch to the merge block M (4)
DiamondShape == << <<2, 3>>, <<4>>, <<4>>, <<>> >>

Diamonds ==
    {Description(DiamondShape,
                 << <<>>, <<StSet(Reg(1), 1)>>, <<StSet(Reg(1), 2)>>, m >>,
                 [NoCond(4) EXCEPT ![1] = c]) :
        c \in {0 - 1, 0},
        m \in {<<StGet(Reg(1))>>, <<StInc(Reg(1))>>, <<StGet(Reg(1)), StGet(Reg(1))>>}}

\* entry (1) -> H (2) -> L (3) -> H, with additional reads of R2 in H and in L
LoopShape == << <<2>>, <<3>>, <<2>> >>

Loops ==
    {Description(LoopShape, << <<StSet(Reg(2), 0)>>, h, l >>, NoCond(3)) :
        h \in {<<>>, <<StGet(Reg(2))>>},
        l \in {<<StInc(Reg(2))>>, <<StGet(Reg(2)), StInc(Reg(2))>>,
               <<StInc(Reg(2)), StGet(Reg(2))>>}}

\* reads of R7 in the entry block without a prior write
EntryReads ==
    {Description(<< <<>> >>, << c >>, NoCond(1)) :
        c \in {<<StGet(Reg(7))>>, <<StGet(Reg(7)), StGet(Reg(7))>>,
               <<StGet(Reg(7)), StInc(Reg(7)), StGet(Reg(7))>>,
               <<StGet(Reg(7)), StGet(Reg(1)), StGet(Reg(7))>>}}

\* reads and writes of the sinks RZ and PT among reads and writes of R1 and P0
SinkAccesses ==
    {Description(<< <<2, 2>>, <<>> >>, << c, <<StGet(Reg(1)), StGet(Reg(RZ))>> >>,
                 [NoCond(2) EXCEPT ![1] = p]) :
        c \in {<<StGet(Reg(RZ)), StSet(Reg(RZ), 1), StSet(Pred(PT), 1), StSet(Reg(1), 1)>>,
               <<StSet(Pred(0), 1), StInc(Reg(RZ))>>},
        p \in {0, PT}}

Scenarios == {StraightLine} \cup Diamonds \cup Loops \cup EntryReads \cup SinkAccesses

\* control-flow graphs: a chain, a triangle, a diamond, loops with and without an
\* exit, a self-loop, an entry block with predecessors, a conditional branch with
\* both labels the same, and blocks that are not reachable from the entry block
Shapes ==
    {<< <<2>>, <<3>>, <<>> >>,
     << <<2, 3>>, <<3>>, <<>> >>,
     DiamondShape,
     LoopShape,
     << <<2>>, <<3, 4>>, <<2>>, <<>> >>,
     << <<2>>, <<2, 3>>, <<>> >>,
     << <<2>>, <<1, 3>>, <<>> >>,
     << <<2, 2>>, <<1>> >>,
     << <<3>>, <<3>>, <<>> >>,
     << <<3>>, <<2, 3>>, <<>> >>}

\* what a block of a generated program does
Menu ==
    {<<>>, <<StGet(Reg(1))>>, <<StInc(Reg(1))>>, <<StGet(Reg(1)), StGet(Reg(2))>>,
     <<StSet(Reg(2), 0)>>}
    \cup {<<StSet(Reg(1), n)>> : n \in 0..MaxImm}

GeneratedFor(s) == {Description(s, code, NoCond(Len(s))) : code \in [1..Len(s) -> Menu]}

Generated == UNION {GeneratedFor(s) : s \in Shapes}

Programs == Scenarios \cup Generated

\* the variables the programs name (keys of DefTable)
Variables ==
    {Reg(r) : r \in {1, 2, 3, 4, 5, 7, RZ}} \cup {Pred(0), Pred(PT)}

Init ==
    \E D \in Programs : \E P \in {Translate(D)} :
        LET n == Len(D.succ)
        IN  /\ input = D
            /\ source = [insts |-> P.insts, list |-> P.list]
            /\ insts = P.insts
            /\ list = P.list
            /\ preds = P.preds
            /\ succ = D.succ
            /\ post_order_blocks = PostOrder(D.succ)
            /\ current_def = [v \in Variables |-> [b \in 1..n |-> Empty]]
            /\ incomplete_phis = [b \in 1..n |-> [v \in Variables |-> 0]]
            /\ sealed_blocks = {}
            /\ pc = "VisitBlock"
            /\ block_it = 1
            /\ inst_it = FirstInst(P.list[1])
            /\ stack = <<>>
            /\ variable = Reg(RZ)
            /\ seal_it = 1
            /\ imm_pred_it = 1
            /\ created = {}
            /\ ctx = NoContext
            /\ objects = NoObjects
            /\ emitted = NoCall

Next ==
    \/ VisitSet
    \/ VisitGet
    \/ VisitGetReplace
    \/ VisitOther
    \/ ReadStartDefined
    \/ ReadStartIncomplete
    \/ ReadStartOnePredecessor
    \/ ReadStackExhausted
    \/ ReadStartPhi
    \/ ReadSetValue
    \/ ReadPushPhiArgument
    \/ SealBlockBegin
    \/ AddPhiOperandsRead
    \/ AddPhiOperandsPush
    \/ AddPhiOperandsEnd
    \/ SealBlockEnd

Spec == Init /\ [][Next]_vars

\* the pass is sequential code: a step that can be taken is taken
FairSpec == Spec /\ WF_vars(Next)

TypeOK ==
    /\ pc \in {"VisitBlock", "ReadVariable", "SealBlock", "Done", "BadAlloc"}
    /\ sealed_blocks \subseteq Blocks
    /\ Len(stack) <= MaxStack

(***************************************************************************)
(* Vocabulary of the properties.                                           *)
(***************************************************************************)
\* the program as the translator emitted it, before the pass
Source == source

\* the instructions of the source program in block b, in order
SourceList(b) == Source.list[b]

SourceInst(i) == Source.insts[i]

IsSourceGet(i) == SourceInst(i).op \in GetOpcodes /\ ~IsSink(VariableOf(SourceInst(i)))

IsSourceSet(i) == SourceInst(i).op \in SetOpcodes /\ ~IsSink(VariableOf(SourceInst(i)))

\* instruction i of the source names RZ or PT
IsSourceSink(i) ==
    \/ SourceInst(i).op \in {"GetRegister", "SetRegister"} /\ SourceInst(i).args[1] = RegOperand(RZ)
    \/ SourceInst(i).op \in {"GetPred", "SetPred"} /\ SourceInst(i).args[1] = PredOperand(PT)

\* positions of the Set* of the variable of the Get at position k that precede it
\* in the source of block b
PriorSets(b, k) ==
    {j \in 1..(k - 1) :
        /\ IsSourceSet(SourceList(b)[j])
        /\ VariableOf(SourceInst(SourceList(b)[j])) = VariableOf(SourceInst(SourceList(b)[k]))}

Max(S) == CHOOSE x \in S : \A y \in S : y <= x

\* blocks the pass visits
Visited == {post_order_blocks[k] : k \in 1..Len(post_order_blocks)}

Finished == pc = "Done"

UndefOpcodes == {"UndefU1", "UndefU32"}

\* the instructions of block b with opcode Phi
PhisOf(b) == {list[b][k] : k \in {j \in 1..Len(list[b]) : IsPhi(insts, list[b][j])}}

\* instructions created for variable v in block b whose opcode is in ops
CreatedFor(v, b, ops) ==
    {c.inst : c \in {d \in created : d.var = v /\ d.block = b /\ insts[d.inst].op \in ops}}

(***************************************************************************)
(* C7.  As claimed: at the end of the pass every phi node has its operands *)
(* keyed by the immediate predecessors of its block, in their order.       *)
(***************************************************************************)
C7_EveryPhiComplete ==
    Finished => \A b \in Blocks : \A p \in PhisOf(b) : insts[p].phi_blocks = preds[b]

(***************************************************************************)
(* C8.  As claimed: in every state, in every block, no phi node comes      *)
(* after an instruction that is not a phi node.                            *)
(***************************************************************************)
C8_PhisPrecedeNonPhis ==
    \A b \in Blocks : \A k \in 1..Len(list[b]) : \A l \in (k + 1)..Len(list[b]) :
        ~(~IsPhi(insts, list[b][k]) /\ IsPhi(insts, list[b][l]))

(***************************************************************************)
(* C9.  As claimed: after the pass no Get* instruction remains in a        *)
(* visited block.                                                          *)
(***************************************************************************)
C9_NoGetRemains ==
    Finished => \A b \in Visited : \A k \in 1..Len(list[b]) :
                    insts[list[b][k]].op \notin GetOpcodes

(***************************************************************************)
(* C10.  In every state each instruction's use count is the number of      *)
(* operand slots that hold a reference to it.                              *)
(***************************************************************************)
\* the operand slots (instruction j, operand k) that hold an instruction, over the
\* instructions that are not invalidated
InstSlots(I) ==
    UNION {{<<j, k>> : k \in {m \in 1..Len(I[j].args) : IsInst(I[j].args[m])}} :
              j \in {m \in 1..Len(I) : I[m].op # "Invalid"}}

C9_OnlySinkGetsRemain ==
    Finished =>
        \A b \in Visited : \A k \in 1..Len(list[b]) :
            LET r == insts[list[b][k]]
            IN  r.op \in GetOpcodes =>
                    \/ r.op = "GetRegister" /\ r.args[1] = RegOperand(RZ)
                    \/ r.op = "GetPred" /\ r.args[1] = PredOperand(PT)

\* the pass has finished on a program that reads a sink and another variable
C9_Witness ==
    /\ Finished
    /\ \E i \in 1..Len(insts) : insts[i].op = "GetRegister"
    /\ \E i \in 1..Len(Source.insts) : IsSourceGet(i) /\ insts[i].op = "Identity"

C3_DiamondPhi ==
    (Finished /\ input \in Diamonds) =>
        /\ preds[4] = <<2, 3>>
        /\ Cardinality(PhisOf(4)) = 1
        /\ \A p \in PhisOf(4) :
              /\ p \in CreatedFor(Reg(1), 4, {"Phi"})
              /\ insts[p].phi_blocks = <<2, 3>>
              /\ insts[p].args = <<Imm32(1), Imm32(2)>>
              /\ LET g == SourceList(4)[1]
                 IN  /\ SourceInst(g).op = "GetRegister"
                     /\ insts[g].op = "Identity"
                     /\ insts[g].fwd = InstRef(p)
                     /\ \A j \in 1..Len(Source.insts) :
                          \A k \in 1..Len(SourceInst(j).args) :
                              SourceInst(j).args[k] = InstRef(g) => insts[j].args[k] = InstRef(p)

\* the pass has finished on a diamond whose merge block uses the value it read
C3_Witness ==
    /\ Finished
    /\ input \in Diamonds
    /\ \E j \in 1..Len(insts) :
          /\ insts[j].op = "IAdd32"
          /\ IsInst(insts[j].args[1])
          /\ insts[insts[j].args[1].n].op = "Phi"

(***************************************************************************)
(* C4.  A Get* of v that follows a Set* of v in its block stands for the   *)
(* value the most recent such Set* writes, so does every operand that      *)
(* referred to the Get*, and no instruction is created by such a read.     *)
(* The straight-line program ends with R5 defined as IAdd32(7, 5), and no  *)
(* phi node and no other instruction has been created.                     *)
(***************************************************************************)
\* the position of the source instruction i in the source of block b
SourcePos(b, i) == IndexOf(SourceList(b), i, 1)

C4_ReadsLastWrite ==
    \A b \in Visited : \A k \in 1..Len(SourceList(b)) :
        LET g == SourceList(b)[k]
        IN  (IsSourceGet(g) /\ PriorSets(b, k) # {} /\ insts[g].op = "Identity") =>
                LET s == SourceList(b)[Max(PriorSets(b, k))]
                    written == Resolve(insts, insts[s].args[Len(insts[s].args)])
                IN  /\ Resolve(insts, insts[g].fwd) = written
                    /\ \A j \in 1..Len(Source.insts) :
                         \A m \in 1..Len(SourceInst(j).args) :
                             SourceInst(j).args[m] = InstRef(g) =>
                                 Resolve(insts, insts[j].args[m]) = written

C4_StraightLine ==
    (Finished /\ input = StraightLine) =>
        /\ created = {}
        /\ \A i \in 1..Len(insts) : insts[i].op # "Phi"
        /\ IsInst(current_def[Reg(5)][1])
        /\ insts[current_def[Reg(5)][1].n].op = "IAdd32"
        /\ insts[current_def[Reg(5)][1].n].args = <<Imm32(7), Imm32(5)>>

\* the block whose source holds instruction i
SourceBlock(i) == CHOOSE b \in Blocks : SourcePos(b, i) <= Len(SourceList(b))

\* the Get* whose reads created an instruction follow no Set* of their variable
C4_NoCreation ==
    \A c \in created :
        c.by # 0 => PriorSets(SourceBlock(c.by), SourcePos(SourceBlock(c.by), c.by)) = {}

C4_LocalRead == C4_ReadsLastWrite /\ C4_StraightLine /\ C4_NoCreation

\* the straight-line program has been rewritten
C4_Witness ==
    /\ Finished
    /\ input = StraightLine
    /\ \E i \in 1..Len(insts) : insts[i].op = "IAdd32" /\ insts[i].args = <<Imm32(7), Imm32(5)>>

(***************************************************************************)
(* C5.  With an entry block that has no predecessors: for every register   *)
(* at most one Undef is ever created for the entry block, it is an         *)
(* UndefU32 of the entry block, once the entry block is sealed every read  *)
(* of the register in the entry block that no write precedes resolves to   *)
(* that Undef, and the Undef stands after the phi nodes of the entry block  *)
(* and before every instruction of the source program.                     *)
(***************************************************************************)
Registers == {v \in Variables : v.kind = "Reg"}

\* the reads of v in the source of the entry block that no write of v precedes
EntryReadsOf(v) ==
    {SourceList(1)[k] : k \in {j \in 1..Len(SourceList(1)) :
        /\ IsSourceGet(SourceList(1)[j])
        /\ VariableOf(SourceInst(SourceList(1)[j])) = v
        /\ PriorSets(1, j) = {}}}

C5_OneUndef ==
    preds[1] = <<>> =>
        \A v \in Registers :
            LET undefs == CreatedFor(v, 1, UndefOpcodes)
                reads == EntryReadsOf(v)
            IN  /\ Cardinality(undefs) <= 1
                /\ \A u \in undefs : insts[u].op = "UndefU32" /\ IndexOf(list[1], u, 1) <= Len(list[1])
                /\ (1 \in sealed_blocks /\ reads # {}) =>
                      /\ Cardinality(undefs) = 1
                      /\ \A g \in reads : \A u \in undefs :
                            Resolve(insts, InstRef(g)) = InstRef(u)

\* every instruction before an Undef of the entry block is one the pass created
\* (a phi node, a phi node it eliminated, another Undef), and no phi node follows it
C5_Placement ==
    preds[1] = <<>> =>
        \A pos \in 1..Len(list[1]) :
            insts[list[1][pos]].op \in UndefOpcodes =>
                /\ \A k \in 1..(pos - 1) : list[1][k] > Len(Source.insts)
                /\ \A k \in (pos + 1)..Len(list[1]) : ~IsPhi(insts, list[1][k])

C5_EntryUndef == C5_OneUndef /\ C5_Placement

\* two reads of R7 in the entry block, with a read of another register between
\* them, stand for one Undef
C5_Witness ==
    /\ Finished
    /\ input \in EntryReads
    /\ Cardinality(EntryReadsOf(Reg(7))) = 2
    /\ EntryReadsOf(Reg(1)) # {}
    /\ \E u \in 1..Len(insts) :
          /\ insts[u].op = "UndefU32"
          /\ \A g \in EntryReadsOf(Reg(7)) : Resolve(insts, InstRef(g)) = InstRef(u)

(***************************************************************************)
(* C6.  As claimed: the work stack of every ReadVariable call unwinds and  *)
(* the pass reports no error.  The model reports a work stack that grows   *)
(* beyond MaxStack as the allocation failure that ends the pass.           *)
(***************************************************************************)
C6_NoError == pc # "BadAlloc"

\* frames i..j of the work stack are a chain of one-predecessor shortcuts that
\* starts and ends at the same block: the read repeats itself from frame j on
Cycling(i, j) ==
    /\ stack[i].block = stack[j].block
    /\ \A k \in i..(j - 1) : stack[k].pc = "SetValue" /\ stack[k].phi = 0
    /\ stack[j].pc = "Start"

\* the work stack is exhausted only by reads that repeat themselves for ever
ExhaustedOnlyWhenCycling ==
    pc = "BadAlloc" => \E i \in 2..Len(stack) : \E j \in (i + 1)..Len(stack) : Cycling(i, j)

(***************************************************************************)
(* Reference semantics, for the claims about the values reads stand for.   *)
(* A path of the control-flow graph is executed twice in lockstep: the     *)
(* source program on a store of variables, and the rewritten program on    *)
(* the values of its instructions, each phi node taking the operand of the *)
(* predecessor the path came from.  A variable never written holds         *)
(* Undefined; an instruction that has not executed on the path has the     *)
(* value Unavailable.                                                      *)
(***************************************************************************)
Undefined == 0 - 1

Unavailable == 0 - 2

Add(a, b) ==
    IF a = Unavailable \/ b = Unavailable THEN Unavailable
    ELSE IF a = Undefined \/ b = Undefined THEN Undefined
    ELSE a + b

\* the value of operand v given the values env of the instructions of I
Eval(I, env, v) ==
    LET r == Resolve(I, v)
    IN  IF ~IsInst(r) THEN r.n
        ELSE IF I[r.n].op \in UndefOpcodes THEN Undefined
        ELSE env[r.n]

\* the value phi node p takes when its block is entered from predecessor from
PhiValue(env, p, from) ==
    LET ks == {k \in 1..Len(insts[p].phi_blocks) : insts[p].phi_blocks[k] = from}
    IN  IF ks = {} THEN Unavailable ELSE Eval(insts, env, insts[p].args[Max(ks)])

\* what a read of a sink yields: RZ reads zero, PT reads true
SinkValue(var) == IF var = Pred(PT) THEN 1 ELSE 0

\* one instruction i of the block, executed by both programs
Step(S, i) ==
    IF i > Len(Source.insts) THEN S
    ELSE LET r == SourceInst(i)
         IN  CASE r.op \in GetOpcodes /\ IsSink(VariableOf(r)) ->
                    [S EXCEPT !.src[i] = SinkValue(VariableOf(r)),
                              !.ssa[i] = SinkValue(VariableOf(r))]
               [] r.op \in GetOpcodes /\ ~IsSink(VariableOf(r)) ->
                    [S EXCEPT !.src[i] = S.store[VariableOf(r)],
                              !.ok = S.ok /\ Eval(insts, S.ssa, InstRef(i)) = S.store[VariableOf(r)]]
               [] r.op \in SetOpcodes /\ ~IsSink(VariableOf(r)) ->
                    [S EXCEPT !.store[VariableOf(r)] = Eval(Source.insts, S.src, WrittenValue(r))]
               [] r.op = "IAdd32" ->
                    [S EXCEPT !.src[i] = Add(Eval(Source.insts, S.src, r.args[1]),
                                             Eval(Source.insts, S.src, r.args[2])),
                              !.ssa[i] = Add(Eval(insts, S.ssa, insts[i].args[1]),
                                             Eval(insts, S.ssa, insts[i].args[2]))]
               [] OTHER -> S

RECURSIVE RunInsts(_, _, _)
RunInsts(S, b, k) ==
    IF k > Len(list[b]) THEN S ELSE RunInsts(Step(S, list[b][k]), b, k + 1)

\* block b entered from block `from` (0 at the start of the program)
RunBlock(S, b, from) ==
    RunInsts([S EXCEPT !.ssa = [i \in 1..Len(insts) |->
                                  IF i \in PhisOf(b) THEN PhiValue(S.ssa, i, from) ELSE S.ssa[i]]],
             b, 1)

RECURSIVE RunPath(_, _, _)
RunPath(S, path, k) ==
    IF k > Len(path) THEN S
    ELSE RunPath(RunBlock(S, path[k], IF k = 1 THEN 0 ELSE path[k - 1]), path, k + 1)

Start ==
    [src |-> [i \in 1..Len(Source.insts) |-> Unavailable],
     ssa |-> [i \in 1..Len(insts) |-> Unavailable],
     store |-> [v \in Variables |-> Undefined],
     ok |-> TRUE]

\* the paths of at most n blocks that start at the entry block
RECURSIVE Paths(_)
Paths(n) ==
    IF n = 1 THEN {<<1>>}
    ELSE LET shorter == Paths(n - 1)
         IN  shorter \cup UNION {{Append(q, succ[q[Len(q)]][k]) : k \in 1..Len(succ[q[Len(q)]])} :
                                    q \in {r \in shorter : Len(r) = n - 1}}

(***************************************************************************)
(* C1.  As claimed: after the pass, on every path from the entry block,    *)
(* every Get* of a variable other than a sink stands for the value of the  *)
(* last Set* of the variable on the path, or for an Undef when the path    *)
(* has none.                                                               *)
(***************************************************************************)
C1_ReadsSeeLastWrite ==
    Finished => \A path \in Paths(MaxPath) : RunPath(Start, path, 1).ok

(***************************************************************************)
(* C2.  As claimed: in the loop entry (1) -> H (2) -> L (3) -> H, for each *)
(* placement of additional reads of R2, H ends with a phi node for R2      *)
(* whose operands are (entry, imm32(0)) and (L, the IAdd32 of L).          *)
(***************************************************************************)
C2_LoopPhi ==
    (Finished /\ input \in Loops) =>
        \E p \in PhisOf(2) :
            /\ p \in CreatedFor(Reg(2), 2, {"Phi"})
            /\ insts[p].phi_blocks = <<1, 3>>
            /\ Len(insts[p].args) = 2
            /\ insts[p].args[1] = Imm32(0)
            /\ IsInst(insts[p].args[2])
            /\ insts[insts[p].args[2].n].op = "IAdd32"
            /\ IndexOf(list[3], insts[p].args[2].n, 1) <= Len(list[3])

(***************************************************************************)
(* The calls the next step of the pass makes, as a function of the current *)
(* state: each call is a record of the arguments it receives.              *)
(***************************************************************************)
\* ReadVariable, case PushPhiArgument: the machine after phi.AddPhiOperand
PushedPhiArgument ==
    [Machine EXCEPT
        !.insts = AddPhiOperand(@, Back(Machine).phi,
                                preds[Back(Machine).block][Back(Machine).pred_it],
                                Back(Machine).result),
        !.stack[Len(stack)].pred_it = @ + 1]

\* ReadVariable, case Start of a sealed block without predecessors: the machine
\* after the operandless phi was prepended and written
StartedPhi ==
    LET block == Back(Machine).block
        phi == Len(insts) + 1
        M1 == WriteVariable(PrependNewInst(Machine, block, 1, "Phi"), variable, block,
                            InstRef(phi))
    IN  [M1 EXCEPT !.stack[Len(stack)].phi = phi, !.stack[Len(stack)].pred_it = 1]

\* the call of TryRemoveTrivialPhi the next step makes, if it makes one
TrivialPhiCalls ==
    IF Reading /\ Back(Machine).pc = "PushPhiArgument"
    THEN LET M == PushedPhiArgument
         IN  IF Back(M).pred_it = Len(preds[Back(M).block]) + 1
             THEN {[M |-> M, phi |-> Back(M).phi, block |-> Back(M).block,
                    undef_opcode |-> UndefOpcode(variable)]}
             ELSE {}
    ELSE IF /\ Reading
            /\ Back(Machine).pc = "Start"
            /\ IsEmpty(current_def[variable][Back(Machine).block])
            /\ Back(Machine).block \in sealed_blocks
            /\ Len(preds[Back(Machine).block]) = 0
    THEN {[M |-> StartedPhi, phi |-> Len(insts) + 1, block |-> Back(Machine).block,
           undef_opcode |-> UndefOpcode(variable)]}
    ELSE IF Sealing /\ imm_pred_it > Len(preds[CurrentBlock])
    THEN LET var == IncompleteVariables(CurrentBlock)[seal_it]
         IN  {[M |-> Machine, phi |-> incomplete_phis[CurrentBlock][var],
               block |-> CurrentBlock, undef_opcode |-> UndefOpcode(var)]}
    ELSE {}

\* the operands scan of a call of TryRemoveTrivialPhi
ScanOf(c) == ScanPhi(c.M.insts, c.phi, 1, Empty)

\* the call of ReplaceUsesWith the next step makes, if it makes one: from
\* TryRemoveTrivialPhi for a trivial phi, from VisitInst for a Get*
ReplaceCalls ==
    {LET same == ScanOf(c).same
     IN  [I |-> IF IsEmpty(same)
                THEN InsertUndef(c.M, c.phi, c.block, c.undef_opcode).insts
                ELSE c.M.insts,
          target |-> c.phi,
          replacement |-> IF IsEmpty(same) THEN InstRef(Len(c.M.insts) + 1)
                          ELSE same] :
        c \in {d \in TrivialPhiCalls : ScanOf(d).trivial}}
    \cup (IF pc = "ReadVariable" /\ Len(stack) = 1 /\ inst_it # 0
          THEN {[I |-> insts, target |-> inst_it, replacement |-> stack[1].result]}
          ELSE {})

(***************************************************************************)
(* C11.  For every call a.ReplaceUsesWith(b) the pass makes: afterwards    *)
(* the use count of a is 0, no operand slot of the program holds a, and    *)
(* the use count of b is not below what it was before the call.            *)
(***************************************************************************)
C11_ReplaceUsesWith ==
    \A c \in ReplaceCalls :
        LET after == ReplaceUsesWith(c.I, c.target, c.replacement)
        IN  /\ after[c.target].uses = 0
            /\ \A s \in InstSlots(after) : after[s[1]].args[s[2]] # InstRef(c.target)
            /\ \A j \in 1..Len(after) : after[j].fwd # InstRef(c.target)
            /\ IsInst(c.replacement) =>
                   after[c.replacement.n].uses >= c.I[c.replacement.n].uses

\* a call that replaces an instruction with users by another instruction
C11_Witness ==
    \E c \in ReplaceCalls :
        /\ c.I[c.target].uses > 0
        /\ IsInst(c.replacement)
        /\ c.I[c.replacement.n].uses > 0

(***************************************************************************)
(* C12.  As claimed: when TryRemoveTrivialPhi finds exactly one distinct   *)
(* non-self operand v of the phi, afterwards every operand slot that held  *)
(* the phi holds v, the phi is no longer in its block, and the use count   *)
(* of v has grown by exactly the use count the phi had.                    *)
(***************************************************************************)
\* the calls of TryRemoveTrivialPhi whose phi has exactly one distinct non-self operand
CollapsingCalls == {c \in TrivialPhiCalls : ScanOf(c).trivial /\ ~IsEmpty(ScanOf(c).same)}

\* the machine after the call
AfterCall(c) == TryRemoveTrivialPhi(c.M, c.phi, c.block, c.undef_opcode)

\* every slot that held the phi holds v, and v counts the phi's former uses
C12_UsesRerouted ==
    \A c \in CollapsingCalls :
        LET v == ScanOf(c).same
            before == c.M.insts
            after == AfterCall(c).insts
        IN  /\ AfterCall(c).result = v
            /\ \A j \in 1..Len(before) : \A k \in 1..Len(before[j].args) :
                   after[j].args[k] = IF before[j].args[k] = InstRef(c.phi) THEN v
                                      ELSE before[j].args[k]
            /\ after[c.phi].uses = 0
            /\ IsInst(v) => after[v.n].uses = before[v.n].uses + before[c.phi].uses

\* the phi has left the instruction list of its block
C12_PhiRemoved ==
    \A c \in CollapsingCalls :
        IndexOf(AfterCall(c).list[c.block], c.phi, 1) > Len(AfterCall(c).list[c.block])

C12_TrivialPhiCollapse == C12_UsesRerouted /\ C12_PhiRemoved

(***************************************************************************)
(* C13.  For every call of TryRemoveTrivialPhi the pass makes, a second    *)
(* call on the same phi returns the value the first call returned and      *)
(* leaves the instructions (opcodes, operands, use counts) and the block   *)
(* lists as the first call left them: no further Undef, no move.           *)
(***************************************************************************)
\* the machine after a second call on the same phi
AfterSecondCall(c) == TryRemoveTrivialPhi(AfterCall(c), c.phi, c.block, c.undef_opcode)

C13_Idempotent ==
    \A c \in TrivialPhiCalls :
        LET first == AfterCall(c)
            second == AfterSecondCall(c)
        IN  /\ second.result = first.result
            /\ second.insts = first.insts
            /\ second.list = first.list

\* the three cases of the claim, each at a call the pass makes
C13_NonTrivialCall == \E c \in TrivialPhiCalls : ~ScanOf(c).trivial

C13_CollapsingCall == \E c \in CollapsingCalls : c.M.insts[c.phi].uses > 0

C13_NoOperandCall ==
    \E c \in TrivialPhiCalls :
        /\ Len(c.M.insts[c.phi].args) = 0
        /\ Len(AfterCall(c).insts) = Len(c.M.insts) + 1

\* a call on a phi without operands, for which the first call inserted an Undef
C13_Witness == C13_NoOperandCall

(***************************************************************************)
(* The GLASM backend's image instructions (emit_glasm_image.cpp).  An      *)
(* image operation may have a GetSparseFromOp pseudo-operation attached,   *)
(* whose users read the residency flag.  The state is the block being      *)
(* emitted (insts, list, inst_it) and the EmitContext ctx: the code added  *)
(* so far and the instructions the register allocator defined.            *)
(***************************************************************************)
\* most users a GetSparseFromOp has
MaxUsers == 2

ImageOpcodes ==
    {"ImageSampleImplicitLod", "ImageSampleExplicitLod", "ImageSampleDrefImplicitLod",
     "ImageSampleDrefExplicitLod", "ImageGather", "ImageGatherDref", "ImageFetch"}

\* Inst::GetAssociatedPseudoOperation: the attached pseudo-operation, 0 for none
GetAssociatedPseudoOperation(I, i, opcode) ==
    IF \E j \in 1..Len(I) : I[j].op = opcode /\ I[j].args = <<InstRef(i)>>
    THEN CHOOSE j \in 1..Len(I) : I[j].op = opcode /\ I[j].args = <<InstRef(i)>>
    ELSE 0

\* Inst::UndoUse for each operand
RECURSIVE UndoUseAll(_, _)
UndoUseAll(I, args) ==
    IF args = <<>> THEN I
    ELSE UndoUseAll(IF IsInst(Head(args)) THEN AddUses(I, Head(args).n, 0 - 1) ELSE I, Tail(args))

\* Inst::Invalidate: clears the operands, marks the opcode; the use count of the
\* target itself is not written
Invalidate(I, t) == [UndoUseAll(I, I[t].args) EXCEPT ![t].args = <<>>, ![t].op = "Invalid"]

\* RegAlloc::Define
Define(c, i) == [c EXCEPT !.defined = @ \cup {i}]

\* EmitContext::Add
ContextAdd(c, line) == [c EXCEPT !.code = Append(@, line)]

\* the instruction mnemonic EmitImageSampleImplicitLod formats
ImplicitLodMnemonic(info) ==
    IF info.has_bias
    THEN IF info.cube THEN (IF info.has_lod_clamp THEN "TXB.F.LODCLAMP" ELSE "TXB.F")
         ELSE IF info.has_lod_clamp THEN "MOV.F;TXB.F.LODCLAMP" ELSE "MOV.F;TXB.F"
    ELSE IF info.has_lod_clamp THEN "TEX.F.LODCLAMP" ELSE "TEX.F"

\* StoreSparse(ctx, sparse_inst), on the pair of the instructions and the context
StoreSparse(S, sparse_inst) ==
    IF sparse_inst = 0 THEN S
    ELSE [insts |-> Invalidate(S.insts, sparse_inst),
          ctx |-> ContextAdd(Define(S.ctx, sparse_inst),
                      [text |-> "MOV.S;MOV.S(NONRESIDENT)", ret |-> sparse_inst])]

\* what an image instruction leaves before it calls StoreSparse
BeforeStoreSparse(mnemonic) ==
    LET sparse_inst == GetAssociatedPseudoOperation(insts, inst_it, "GetSparseFromOp")
        sparse_mod == IF sparse_inst # 0 THEN ".SPARSE" ELSE ""
    IN  [insts |-> insts,
         ctx |-> ContextAdd(Define(ctx, inst_it),
                     [text |-> mnemonic, sparse_mod |-> sparse_mod, ret |-> inst_it])]

EmitImage(opcode, mnemonic) ==
    /\ pc = "EmitInst"
    /\ inst_it # 0
    /\ insts[inst_it].op = opcode
    /\ LET S == StoreSparse(BeforeStoreSparse(mnemonic),
                            GetAssociatedPseudoOperation(insts, inst_it, "GetSparseFromOp"))
       IN  /\ insts' = S.insts
           /\ ctx' = S.ctx
    /\ pc' = "Emitted"
    /\ UNCHANGED <<cfg, list, current_def, incomplete_phis, sealed_blocks, block_it, inst_it,
                   stack, variable, seal_it, imm_pred_it, created, emitted, objects>>

EmitImageSampleImplicitLod ==
    EmitImage("ImageSampleImplicitLod", ImplicitLodMnemonic(input.info))

EmitImageSampleExplicitLod == EmitImage("ImageSampleExplicitLod", "TXL.F")

EmitImageSampleDrefImplicitLod == EmitImage("ImageSampleDrefImplicitLod", "TEX.F")

EmitImageSampleDrefExplicitLod == EmitImage("ImageSampleDrefExplicitLod", "TXL.F")

EmitImageGather == EmitImage("ImageGather", "TXG.F")

EmitImageGatherDref == EmitImage("ImageGatherDref", "TXG.F")

EmitImageFetch == EmitImage("ImageFetch", "TXF.F")

\* an image operation, then its GetSparseFromOp if it has one, then the users of
\* the residency flag
RECURSIVE AddUsers(_, _, _)
AddUsers(P, consumer, n) ==
    IF n = 0 THEN P ELSE AddUsers(Inst(P, 1, "LogicalNot", <<InstRef(consumer)>>), consumer, n - 1)

ImageProgram(D) ==
    LET P1 == Inst(EmptyProgram(1), 1, D.opcode, <<Imm32(0)>>)
    IN  IF D.sparse THEN AddUsers(Inst(P1, 1, "GetSparseFromOp", <<InstRef(1)>>), 2, D.users)
        ELSE P1

TextureInstInfos == [has_bias : BOOLEAN, has_lod_clamp : BOOLEAN, cube : BOOLEAN]

ImageScenarios ==
    [opcode : ImageOpcodes, info : TextureInstInfos, sparse : {FALSE}, users : {0}]
    \cup [opcode : ImageOpcodes, info : TextureInstInfos, sparse : {TRUE}, users : 0..MaxUsers]

\* the SSA pass does not run in the specifications of the other components
PassIdle ==
    /\ preds = <<>>
    /\ succ = <<>>
    /\ post_order_blocks = <<>>
    /\ current_def = <<>>
    /\ incomplete_phis = <<>>
    /\ sealed_blocks = {}
    /\ block_it = 0
    /\ stack = <<>>
    /\ variable = Reg(RZ)
    /\ seal_it = 0
    /\ imm_pred_it = 0
    /\ created = {}

ImageInit ==
    \E D \in ImageScenarios :
        /\ input = D
        /\ source = ImageProgram(D).insts
        /\ insts = ImageProgram(D).insts
        /\ list = ImageProgram(D).list
        /\ inst_it = 1
        /\ pc = "EmitInst"
        /\ ctx = NoContext
        /\ objects = NoObjects
        /\ emitted = NoCall
        /\ PassIdle

ImageNext ==
    \/ EmitImageSampleImplicitLod
    \/ EmitImageSampleExplicitLod
    \/ EmitImageSampleDrefImplicitLod
    \/ EmitImageSampleDrefExplicitLod
    \/ EmitImageGather
    \/ EmitImageGatherDref
    \/ EmitImageFetch

ImageSpec == ImageInit /\ [][ImageNext]_vars

(***************************************************************************)
(* C14.  As claimed: for an image operation with a GetSparseFromOp         *)
(* attached, Invalidate is called on the consumer only while its use       *)
(* count is 0 (its uses were replaced before), and once the image          *)
(* operation is emitted the consumer has opcode Invalid, use count 0, and  *)
(* no operand slot holds it.                                               *)
(***************************************************************************)
\* the consumer attached to the image operation being emitted, 0 for none
Consumer == GetAssociatedPseudoOperation(source, 1, "GetSparseFromOp")

C14_InvalidateUnused ==
    (pc = "EmitInst" /\ Consumer # 0) =>
        BeforeStoreSparse("").insts[Consumer].uses = 0

C14_ConsumerResolved ==
    (pc = "Emitted" /\ Consumer # 0) =>
        /\ insts[Consumer].op = "Invalid"
        /\ insts[Consumer].uses = 0
        /\ SlotSum(insts, InstRef(Consumer)) = 0

C14_SparseResolution == C14_InvalidateUnused /\ C14_ConsumerResolved

(***************************************************************************)
(* IR::IREmitter (ir_emitter.cpp): the polymorphic emit methods.  Each     *)
(* picks the opcode from the type of its operands and appends one          *)
(* instruction to the block, or throws and appends nothing.  A method is   *)
(* an operator from the emitter's program P and the arguments to the       *)
(* outcome: the program afterwards, the value returned with the type the   *)
(* method declares for it, and the exception thrown ("" for none).         *)
(***************************************************************************)
\* largest small element index CompositeExtract is called with
MaxElement == 4

ScalarTypes == {"U1", "U8", "U16", "U32", "U64", "F16", "F32", "F64"}

\* the opcode of the instruction that stands for an operand of a scalar type
ParameterOpcode(type) ==
    CASE type = "U1" -> "UndefU1"
      [] type = "U8" -> "UndefU8"
      [] type = "U16" -> "UndefU16"
      [] type = "U32" -> "UndefU32"
      [] type = "U64" -> "UndefU64"
      [] type = "F16" -> "FPAbs16"
      [] type = "F32" -> "FPAbs32"
      [] type = "F64" -> "FPAbs64"

\* the result type of an opcode
ResultType(op) ==
    CASE op \in {"UndefU1"} -> "U1"
      [] op \in {"UndefU8", "SelectU8"} -> "U8"
      [] op \in {"UndefU16", "SelectU16"} -> "U16"
      [] op \in {"UndefU32", "SelectU32", "IAdd32", "ISub32"} -> "U32"
      [] op \in {"UndefU64", "SelectU64", "IAdd64", "ISub64"} -> "U64"
      [] op \in {"FPAbs16", "FPAdd16", "FPMul16", "FPFma16"} -> "F16"
      [] op \in {"FPAbs32", "FPAdd32", "FPMul32", "FPFma32", "SelectF32"} -> "F32"
      [] op \in {"FPAbs64", "FPAdd64", "FPMul64", "FPFma64"} -> "F64"
      [] op = "CompositeConstructU32x2" -> "U32x2"
      [] op = "CompositeConstructU32x3" -> "U32x3"
      [] op = "CompositeConstructU32x4" -> "U32x4"
      [] op = "CompositeConstructF16x2" -> "F16x2"
      [] op = "CompositeConstructF16x3" -> "F16x3"
      [] op = "CompositeConstructF16x4" -> "F16x4"
      [] op = "CompositeConstructF32x2" -> "F32x2"
      [] op = "CompositeConstructF32x3" -> "F32x3"
      [] op = "CompositeConstructF32x4" -> "F32x4"
      [] op = "CompositeConstructF64x2" -> "F64x2"
      [] op = "CompositeConstructF64x3" -> "F64x3"
      [] op = "CompositeConstructF64x4" -> "F64x4"
      [] op \in {"CompositeExtractU32x2", "CompositeExtractU32x3", "CompositeExtractU32x4"} -> "U32"
      [] op \in {"CompositeExtractF16x2", "CompositeExtractF16x3", "CompositeExtractF16x4"} -> "F16"
      [] op \in {"CompositeExtractF32x2", "CompositeExtractF32x3", "CompositeExtractF32x4"} -> "F32"
      [] op \in {"CompositeExtractF64x2", "CompositeExtractF64x3", "CompositeExtractF64x4"} -> "F64"
      [] OTHER -> "Opaque"

\* Value::Type
Type(I, v) ==
    IF IsInst(v) THEN ResultType(I[v.n].op)
    ELSE IF v.k = "imm" THEN "U32"
    ELSE "Opaque"

\* the outcome of a method that throws: nothing is appended
Throw(P, exception) == [P |-> P, ret |-> Empty, type |-> "", thrown |-> exception]

ThrowInvalidType(P) == Throw(P, "InvalidArgument")

\* IREmitter::Inst<T>(op, args...): the instruction is appended to the block and
\* its value returned as a T
InstAs(P, type, op, args) ==
    [P |-> Inst(P, 1, op, args), ret |-> Result(P), type |-> type, thrown |-> ""]

\* IREmitter::Inst<T>(op, Flags{control}, args...)
InstFlagsAs(P, type, op, flags, args) ==
    [P |-> [P EXCEPT !.insts = Append(UseAll(P.insts, args),
                                      NewInst(op, args) @@ [flags |-> flags]),
                     !.list[1] = Append(@, Len(P.insts) + 1)],
     ret |-> Result(P), type |-> type, thrown |-> ""]

\* IREmitter::Inst(op, args...) returning a plain Value
InstValue(P, op, args) == InstAs(P, ResultType(op), op, args)

\* FPMul that does not compare the types of its operands
FPMul_Unchecked(P, a, b, control) ==
    CASE Type(P.insts, a) = "F16" -> InstFlagsAs(P, "F16", "FPMul16", control, <<a, b>>)
      [] Type(P.insts, a) = "F32" -> InstFlagsAs(P, "F32", "FPMul32", control, <<a, b>>)
      [] Type(P.insts, a) = "F64" -> InstFlagsAs(P, "F64", "FPMul64", control, <<a, b>>)
      [] OTHER -> ThrowInvalidType(P)

FPMul(P, a, b, control) ==
    IF Type(P.insts, a) # Type(P.insts, b) THEN Throw(P, "InvalidArgument")
    ELSE
    CASE Type(P.insts, a) = "F16" -> InstFlagsAs(P, "F16", "FPMul16", control, <<a, b>>)
      [] Type(P.insts, a) = "F32" -> InstFlagsAs(P, "F32", "FPMul32", control, <<a, b>>)
      [] Type(P.insts, a) = "F64" -> InstFlagsAs(P, "F64", "FPMul64", control, <<a, b>>)
      [] OTHER -> ThrowInvalidType(P)

FPAdd(P, a, b, control) ==
    IF Type(P.insts, a) # Type(P.insts, a) THEN Throw(P, "InvalidArgument")
    ELSE
    CASE Type(P.insts, a) = "F16" -> InstFlagsAs(P, "F16", "FPAdd16", control, <<a, b>>)
      [] Type(P.insts, a) = "F32" -> InstFlagsAs(P, "F32", "FPAdd32", control, <<a, b>>)
      [] Type(P.insts, a) = "F64" -> InstFlagsAs(P, "F64", "FPAdd64", control, <<a, b>>)
      [] OTHER -> ThrowInvalidType(P)

FPFma(P, a, b, c, control) ==
    IF Type(P.insts, a) # Type(P.insts, b) \/ Type(P.insts, a) # Type(P.insts, c) THEN Throw(P, "InvalidArgument")
    ELSE
    CASE Type(P.insts, a) = "F16" -> InstFlagsAs(P, "F16", "FPFma16", control, <<a, b, c>>)
      [] Type(P.insts, a) = "F32" -> InstFlagsAs(P, "F32", "FPFma32", control, <<a, b, c>>)
      [] Type(P.insts, a) = "F64" -> InstFlagsAs(P, "F64", "FPFma64", control, <<a, b, c>>)
      [] OTHER -> ThrowInvalidType(P)

FPEqual(P, lhs, rhs, ordered) ==
    IF Type(P.insts, lhs) # Type(P.insts, rhs) THEN Throw(P, "InvalidArgument")
    ELSE
    CASE Type(P.insts, lhs) = "F16" -> InstAs(P, "U1", IF ordered THEN "FPOrdEqual16" ELSE "FPUnordEqual16",
                              <<lhs, rhs>>)
      [] Type(P.insts, lhs) = "F32" -> InstAs(P, "U1", IF ordered THEN "FPOrdEqual32" ELSE "FPUnordEqual32",
                              <<lhs, rhs>>)
      [] Type(P.insts, lhs) = "F64" -> InstAs(P, "U1", IF ordered THEN "FPOrdEqual64" ELSE "FPUnordEqual64",
                              <<lhs, rhs>>)
      [] OTHER -> ThrowInvalidType(P)

FPNotEqual(P, lhs, rhs, ordered) ==
    IF Type(P.insts, lhs) # Type(P.insts, rhs) THEN Throw(P, "InvalidArgument")
    ELSE
    CASE Type(P.insts, lhs) = "F16" -> InstAs(P, "U1", IF ordered THEN "FPOrdNotEqual16" ELSE "FPUnordNotEqual16",
                              <<lhs, rhs>>)
      [] Type(P.insts, lhs) = "F32" -> InstAs(P, "U1", IF ordered THEN "FPOrdNotEqual32" ELSE "FPUnordNotEqual32",
                              <<lhs, rhs>>)
      [] Type(P.insts, lhs) = "F64" -> InstAs(P, "U1", IF ordered THEN "FPOrdNotEqual64" ELSE "FPUnordNotEqual64",
                              <<lhs, rhs>>)
      [] OTHER -> ThrowInvalidType(P)

FPLessThan(P, lhs, rhs, ordered) ==
    IF Type(P.insts, lhs) # Type(P.insts, rhs) THEN Throw(P, "InvalidArgument")
    ELSE
    CASE Type(P.insts, lhs) = "F16" -> InstAs(P, "U1", IF ordered THEN "FPOrdLessThan16" ELSE "FPUnordLessThan16",
                              <<lhs, rhs>>)
      [] Type(P.insts, lhs) = "F32" -> InstAs(P, "U1", IF ordered THEN "FPOrdLessThan32" ELSE "FPUnordLessThan32",
                              <<lhs, rhs>>)
      [] Type(P.insts, lhs) = "F64" -> InstAs(P, "U1", IF ordered THEN "FPOrdLessThan64" ELSE "FPUnordLessThan64",
                              <<lhs, rhs>>)
      [] OTHER -> ThrowInvalidType(P)

FPGreaterThan(P, lhs, rhs, ordered) ==
    IF Type(P.insts, lhs) # Type(P.insts, rhs) THEN Throw(P, "InvalidArgument")
    ELSE
    CASE Type(P.insts, lhs) = "F16" -> InstAs(P, "U1", IF ordered THEN "FPOrdGreaterThan16" ELSE "FPUnordGreaterThan16",
                              <<lhs, rhs>>)
      [] Type(P.insts, lhs) = "F32" -> InstAs(P, "U1", IF ordered THEN "FPOrdGreaterThan32" ELSE "FPUnordGreaterThan32",
                              <<lhs, rhs>>)
      [] Type(P.insts, lhs) = "F64" -> InstAs(P, "U1", IF ordered THEN "FPOrdGreaterThan64" ELSE "FPUnordGreaterThan64",
                              <<lhs, rhs>>)
      [] OTHER -> ThrowInvalidType(P)

FPLessThanEqual(P, lhs, rhs, ordered) ==
    IF Type(P.insts, lhs) # Type(P.insts, rhs) THEN Throw(P, "InvalidArgument")
    ELSE
    CASE Type(P.insts, lhs) = "F16" -> InstAs(P, "U1", IF ordered THEN "FPOrdLessThanEqual16" ELSE "FPUnordLessThanEqual16",
                              <<lhs, rhs>>)
      [] Type(P.insts, lhs) = "F32" -> InstAs(P, "U1", IF ordered THEN "FPOrdLessThanEqual32" ELSE "FPUnordLessThanEqual32",
                              <<lhs, rhs>>)
      [] Type(P.insts, lhs) = "F64" -> InstAs(P, "U1", IF ordered THEN "FPOrdLessThanEqual64" ELSE "FPUnordLessThanEqual64",
                              <<lhs, rhs>>)
      [] OTHER -> ThrowInvalidType(P)

FPGreaterThanEqual(P, lhs, rhs, ordered) ==
    IF Type(P.insts, lhs) # Type(P.insts, rhs) THEN Throw(P, "InvalidArgument")
    ELSE
    CASE Type(P.insts, lhs) = "F16" -> InstAs(P, "U1", IF ordered THEN "FPOrdGreaterThanEqual16" ELSE "FPUnordGreaterThanEqual16",
                              <<lhs, rhs>>)
      [] Type(P.insts, lhs) = "F32" -> InstAs(P, "U1", IF ordered THEN "FPOrdGreaterThanEqual32" ELSE "FPUnordGreaterThanEqual32",
                              <<lhs, rhs>>)
      [] Type(P.insts, lhs) = "F64" -> InstAs(P, "U1", IF ordered THEN "FPOrdGreaterThanEqual64" ELSE "FPUnordGreaterThanEqual64",
                              <<lhs, rhs>>)
      [] OTHER -> ThrowInvalidType(P)

\* IAdd that appends IAdd32 for either width
IAddAny_Always32(P, a, b) ==
    IF Type(P.insts, a) # Type(P.insts, b) THEN Throw(P, "InvalidArgument")
    ELSE
    CASE Type(P.insts, a) = "U32" -> InstAs(P, "U32", "IAdd32", <<a, b>>)
      [] Type(P.insts, a) = "U64" -> InstAs(P, "U64", "IAdd32", <<a, b>>)
      [] OTHER -> ThrowInvalidType(P)

\* IREmitter::IAdd for operands of any type
IAddAny(P, a, b) ==
    IF Type(P.insts, a) # Type(P.insts, b) THEN Throw(P, "InvalidArgument")
    ELSE
    CASE Type(P.insts, a) = "U32" -> InstAs(P, "U32", "IAdd32", <<a, b>>)
      [] Type(P.insts, a) = "U64" -> InstAs(P, "U64", "IAdd64", <<a, b>>)
      [] OTHER -> ThrowInvalidType(P)

ISub(P, a, b) ==
    IF Type(P.insts, a) # Type(P.insts, b) THEN Throw(P, "InvalidArgument")
    ELSE
    CASE Type(P.insts, a) = "U32" -> InstAs(P, "U32", "ISub32", <<a, b>>)
      [] Type(P.insts, a) = "U64" -> InstAs(P, "U64", "ISub64", <<a, b>>)
      [] OTHER -> ThrowInvalidType(P)

Select(P, condition, true_value, false_value) ==
    IF Type(P.insts, true_value) # Type(P.insts, false_value) THEN Throw(P, "InvalidArgument")
    ELSE
    CASE Type(P.insts, true_value) = "U8" -> InstValue(P, "SelectU8", <<condition, true_value, false_value>>)
      [] Type(P.insts, true_value) = "U16" -> InstValue(P, "SelectU16", <<condition, true_value, false_value>>)
      [] Type(P.insts, true_value) = "U32" -> InstValue(P, "SelectU32", <<condition, true_value, false_value>>)
      [] Type(P.insts, true_value) = "U64" -> InstValue(P, "SelectU64", <<condition, true_value, false_value>>)
      [] Type(P.insts, true_value) = "F32" -> InstValue(P, "SelectF32", <<condition, true_value, false_value>>)
      [] OTHER -> Throw(P, "InvalidArgument")

\* CompositeConstruct of two elements that stores them in the opposite order
CompositeConstruct2_Swapped(P, e1, e2) ==
    IF Type(P.insts, e1) # Type(P.insts, e2)
    THEN Throw(P, "InvalidArgument")
    ELSE
    CASE Type(P.insts, e1) = "U32" -> InstValue(P, "CompositeConstructU32x2", <<e2, e1>>)
      [] Type(P.insts, e1) = "F16" -> InstValue(P, "CompositeConstructF16x2", <<e2, e1>>)
      [] Type(P.insts, e1) = "F32" -> InstValue(P, "CompositeConstructF32x2", <<e2, e1>>)
      [] Type(P.insts, e1) = "F64" -> InstValue(P, "CompositeConstructF64x2", <<e2, e1>>)
      [] OTHER -> ThrowInvalidType(P)

\* IREmitter::CompositeConstruct, the overloads for 2, 3 and 4 elements
CompositeConstruct2(P, e1, e2) ==
    IF Type(P.insts, e1) # Type(P.insts, e2)
    THEN Throw(P, "InvalidArgument")
    ELSE
    CASE Type(P.insts, e1) = "U32" -> InstValue(P, "CompositeConstructU32x2", <<e1, e2>>)
      [] Type(P.insts, e1) = "F16" -> InstValue(P, "CompositeConstructF16x2", <<e1, e2>>)
      [] Type(P.insts, e1) = "F32" -> InstValue(P, "CompositeConstructF32x2", <<e1, e2>>)
      [] Type(P.insts, e1) = "F64" -> InstValue(P, "CompositeConstructF64x2", <<e1, e2>>)
      [] OTHER -> ThrowInvalidType(P)

CompositeConstruct3(P, e1, e2, e3) ==
    IF Type(P.insts, e1) # Type(P.insts, e2) \/ Type(P.insts, e1) # Type(P.insts, e3)
    THEN Throw(P, "InvalidArgument")
    ELSE
    CASE Type(P.insts, e1) = "U32" -> InstValue(P, "CompositeConstructU32x3", <<e1, e2, e3>>)
      [] Type(P.insts, e1) = "F16" -> InstValue(P, "CompositeConstructF16x3", <<e1, e2, e3>>)
      [] Type(P.insts, e1) = "F32" -> InstValue(P, "CompositeConstructF32x3", <<e1, e2, e3>>)
      [] Type(P.insts, e1) = "F64" -> InstValue(P, "CompositeConstructF64x3", <<e1, e2, e3>>)
      [] OTHER -> ThrowInvalidType(P)

CompositeConstruct4(P, e1, e2, e3, e4) ==
    IF Type(P.insts, e1) # Type(P.insts, e2) \/ Type(P.insts, e1) # Type(P.insts, e3) \/ Type(P.insts, e1) # Type(P.insts, e4)
    THEN Throw(P, "InvalidArgument")
    ELSE
    CASE Type(P.insts, e1) = "U32" -> InstValue(P, "CompositeConstructU32x4", <<e1, e2, e3, e4>>)
      [] Type(P.insts, e1) = "F16" -> InstValue(P, "CompositeConstructF16x4", <<e1, e2, e3, e4>>)
      [] Type(P.insts, e1) = "F32" -> InstValue(P, "CompositeConstructF32x4", <<e1, e2, e3, e4>>)
      [] Type(P.insts, e1) = "F64" -> InstValue(P, "CompositeConstructF64x4", <<e1, e2, e3, e4>>)
      [] OTHER -> ThrowInvalidType(P)

\* the lambda `read` that bounds with element > limit
Read_OffByOne(P, opcode, limit, vector, element) ==
    IF element > limit THEN Throw(P, "InvalidArgument")
    ELSE InstValue(P, opcode, <<vector, Imm32(element)>>)

\* the lambda `read` of CompositeExtract; an element below the limit is unchanged
\* by static_cast<u32>
Read(P, opcode, limit, vector, element) ==
    IF element >= limit THEN Throw(P, "InvalidArgument")
    ELSE InstValue(P, opcode, <<vector, Imm32(element)>>)

CompositeExtract(P, vector, element) ==
    CASE Type(P.insts, vector) = "U32x2" -> Read(P, "CompositeExtractU32x2", 2, vector, element)
      [] Type(P.insts, vector) = "U32x3" -> Read(P, "CompositeExtractU32x3", 3, vector, element)
      [] Type(P.insts, vector) = "U32x4" -> Read(P, "CompositeExtractU32x4", 4, vector, element)
      [] Type(P.insts, vector) = "F16x2" -> Read(P, "CompositeExtractF16x2", 2, vector, element)
      [] Type(P.insts, vector) = "F16x3" -> Read(P, "CompositeExtractF16x3", 3, vector, element)
      [] Type(P.insts, vector) = "F16x4" -> Read(P, "CompositeExtractF16x4", 4, vector, element)
      [] Type(P.insts, vector) = "F32x2" -> Read(P, "CompositeExtractF32x2", 2, vector, element)
      [] Type(P.insts, vector) = "F32x3" -> Read(P, "CompositeExtractF32x3", 3, vector, element)
      [] Type(P.insts, vector) = "F32x4" -> Read(P, "CompositeExtractF32x4", 4, vector, element)
      [] Type(P.insts, vector) = "F64x2" -> Read(P, "CompositeExtractF64x2", 2, vector, element)
      [] Type(P.insts, vector) = "F64x3" -> Read(P, "CompositeExtractF64x3", 3, vector, element)
      [] Type(P.insts, vector) = "F64x4" -> Read(P, "CompositeExtractF64x4", 4, vector, element)
      [] OTHER -> ThrowInvalidType(P)

\* ConvertFToS that converts an F32 to 16 bits with the opcode for F64
ConvertFToS_WrongSource(P, bitsize, value) ==
    CASE bitsize = 16 ->
            CASE Type(P.insts, value) = "F16" -> InstAs(P, "U32", "ConvertS16F16", <<value>>)
              [] Type(P.insts, value) = "F32" -> InstAs(P, "U32", "ConvertS16F64", <<value>>)
              [] Type(P.insts, value) = "F64" -> InstAs(P, "U32", "ConvertS16F64", <<value>>)
              [] OTHER -> ThrowInvalidType(P)
      [] bitsize = 32 ->
            CASE Type(P.insts, value) = "F16" -> InstAs(P, "U32", "ConvertS32F16", <<value>>)
              [] Type(P.insts, value) = "F32" -> InstAs(P, "U32", "ConvertS32F32", <<value>>)
              [] Type(P.insts, value) = "F64" -> InstAs(P, "U32", "ConvertS32F64", <<value>>)
              [] OTHER -> ThrowInvalidType(P)
      [] bitsize = 64 ->
            CASE Type(P.insts, value) = "F16" -> InstAs(P, "U64", "ConvertS64F16", <<value>>)
              [] Type(P.insts, value) = "F32" -> InstAs(P, "U64", "ConvertS64F32", <<value>>)
              [] Type(P.insts, value) = "F64" -> InstAs(P, "U64", "ConvertS64F64", <<value>>)
              [] OTHER -> ThrowInvalidType(P)
      [] OTHER -> Throw(P, "InvalidArgument")

ConvertFToS(P, bitsize, value) ==
    CASE bitsize = 16 ->
            CASE Type(P.insts, value) = "F16" -> InstAs(P, "U32", "ConvertS16F16", <<value>>)
              [] Type(P.insts, value) = "F32" -> InstAs(P, "U32", "ConvertS16F32", <<value>>)
              [] Type(P.insts, value) = "F64" -> InstAs(P, "U32", "ConvertS16F64", <<value>>)
              [] OTHER -> ThrowInvalidType(P)
      [] bitsize = 32 ->
            CASE Type(P.insts, value) = "F16" -> InstAs(P, "U32", "ConvertS32F16", <<value>>)
              [] Type(P.insts, value) = "F32" -> InstAs(P, "U32", "ConvertS32F32", <<value>>)
              [] Type(P.insts, value) = "F64" -> InstAs(P, "U32", "ConvertS32F64", <<value>>)
              [] OTHER -> ThrowInvalidType(P)
      [] bitsize = 64 ->
            CASE Type(P.insts, value) = "F16" -> InstAs(P, "U64", "ConvertS64F16", <<value>>)
              [] Type(P.insts, value) = "F32" -> InstAs(P, "U64", "ConvertS64F32", <<value>>)
              [] Type(P.insts, value) = "F64" -> InstAs(P, "U64", "ConvertS64F64", <<value>>)
              [] OTHER -> ThrowInvalidType(P)
      [] OTHER -> Throw(P, "InvalidArgument")

ConvertFToU(P, bitsize, value) ==
    CASE bitsize = 16 ->
            CASE Type(P.insts, value) = "F16" -> InstAs(P, "U32", "ConvertU16F16", <<value>>)
              [] Type(P.insts, value) = "F32" -> InstAs(P, "U32", "ConvertU16F32", <<value>>)
              [] Type(P.insts, value) = "F64" -> InstAs(P, "U32", "ConvertU16F64", <<value>>)
              [] OTHER -> ThrowInvalidType(P)
      [] bitsize = 32 ->
            CASE Type(P.insts, value) = "F16" -> InstAs(P, "U32", "ConvertU32F16", <<value>>)
              [] Type(P.insts, value) = "F32" -> InstAs(P, "U32", "ConvertU32F32", <<value>>)
              [] Type(P.insts, value) = "F64" -> InstAs(P, "U32", "ConvertU32F64", <<value>>)
              [] OTHER -> ThrowInvalidType(P)
      [] bitsize = 64 ->
            CASE Type(P.insts, value) = "F16" -> InstAs(P, "U64", "ConvertU64F16", <<value>>)
              [] Type(P.insts, value) = "F32" -> InstAs(P, "U64", "ConvertU64F32", <<value>>)
              [] Type(P.insts, value) = "F64" -> InstAs(P, "U64", "ConvertU64F64", <<value>>)
              [] OTHER -> ThrowInvalidType(P)
      [] OTHER -> Throw(P, "InvalidArgument")

ConvertFToI(P, bitsize, is_signed, value) ==
    IF is_signed THEN ConvertFToS(P, bitsize, value) ELSE ConvertFToU(P, bitsize, value)

(***************************************************************************)
(* Calls of the emit methods.  The block starts with two operands, one of  *)
(* each of two drawn types; every method is called on each choice of them. *)
(* CompositeExtract is also called on the value the call before returned.  *)
(* emitted is the log of the calls: arguments, the number of instructions *)
(* before the call, and the outcome.                                       *)
(***************************************************************************)
\* the emitter's program: one block
Emitter == [insts |-> insts, list |-> list]

\* the two operands the block starts with
Operands == {InstRef(1), InstRef(2)}

FpControls == [no_contraction : BOOLEAN]

BitSizes == {8, 16, 32, 64}

\* element indices (size_t): in range, just out of range, and far out of range
Elements == 0..MaxElement \cup {2147483647}

\* the last call
LastCall == emitted[Len(emitted)]

\* the step of a call of method with arguments args and outcome r
Call(method, args, r) ==
    /\ insts' = r.P.insts
    /\ list' = r.P.list
    /\ emitted' = Append(emitted, [method |-> method, args |-> args, before |-> Len(insts),
                                   ret |-> r.ret, type |-> r.type, thrown |-> r.thrown])
    /\ pc' = IF r.thrown = "" THEN "Returned" ELSE "Thrown"
    /\ UNCHANGED <<cfg, ctx, objects, current_def, incomplete_phis, sealed_blocks, block_it, inst_it,
                   stack, variable, seal_it, imm_pred_it, created>>

CallFPAdd ==
    /\ pc = "Ready"
    /\ \E a \in Operands, b \in Operands, control \in FpControls :
           Call("FPAdd", <<a, b, control>>, FPAdd(Emitter, a, b, control))

CallFPMul ==
    /\ pc = "Ready"
    /\ \E a \in Operands, b \in Operands, control \in FpControls :
           Call("FPMul", <<a, b, control>>, FPMul(Emitter, a, b, control))

CallFPFma ==
    /\ pc = "Ready"
    /\ \E a \in Operands, b \in Operands, c \in Operands, control \in FpControls :
           Call("FPFma", <<a, b, c, control>>, FPFma(Emitter, a, b, c, control))

CallFPEqual ==
    /\ pc = "Ready"
    /\ \E lhs \in Operands, rhs \in Operands, ordered \in BOOLEAN :
           Call("FPEqual", <<lhs, rhs, ordered>>, FPEqual(Emitter, lhs, rhs, ordered))

CallFPNotEqual ==
    /\ pc = "Ready"
    /\ \E lhs \in Operands, rhs \in Operands, ordered \in BOOLEAN :
           Call("FPNotEqual", <<lhs, rhs, ordered>>, FPNotEqual(Emitter, lhs, rhs, ordered))

CallFPLessThan ==
    /\ pc = "Ready"
    /\ \E lhs \in Operands, rhs \in Operands, ordered \in BOOLEAN :
           Call("FPLessThan", <<lhs, rhs, ordered>>, FPLessThan(Emitter, lhs, rhs, ordered))

CallFPGreaterThan ==
    /\ pc = "Ready"
    /\ \E lhs \in Operands, rhs \in Operands, ordered \in BOOLEAN :
           Call("FPGreaterThan", <<lhs, rhs, ordered>>, FPGreaterThan(Emitter, lhs, rhs, ordered))

CallFPLessThanEqual ==
    /\ pc = "Ready"
    /\ \E lhs \in Operands, rhs \in Operands, ordered \in BOOLEAN :
           Call("FPLessThanEqual", <<lhs, rhs, ordered>>, FPLessThanEqual(Emitter, lhs, rhs, ordered))

CallFPGreaterThanEqual ==
    /\ pc = "Ready"
    /\ \E lhs \in Operands, rhs \in Operands, ordered \in BOOLEAN :
           Call("FPGreaterThanEqual", <<lhs, rhs, ordered>>, FPGreaterThanEqual(Emitter, lhs, rhs, ordered))

CallIAdd ==
    /\ pc = "Ready"
    /\ \E a \in Operands, b \in Operands :
           Call("IAdd", <<a, b>>, IAddAny(Emitter, a, b))

CallISub ==
    /\ pc = "Ready"
    /\ \E a \in Operands, b \in Operands :
           Call("ISub", <<a, b>>, ISub(Emitter, a, b))

CallSelect ==
    /\ pc = "Ready"
    /\ \E condition \in Operands, true_value \in Operands, false_value \in Operands :
           Call("Select", <<condition, true_value, false_value>>, Select(Emitter, condition, true_value, false_value))

CallCompositeConstruct2 ==
    /\ pc = "Ready"
    /\ \E e1 \in Operands, e2 \in Operands :
           Call("CompositeConstruct", <<e1, e2>>,
                CompositeConstruct2(Emitter, e1, e2))

CallCompositeConstruct3 ==
    /\ pc = "Ready"
    /\ \E e1 \in Operands, e2 \in Operands, e3 \in Operands :
           Call("CompositeConstruct", <<e1, e2, e3>>,
                CompositeConstruct3(Emitter, e1, e2, e3))

CallCompositeConstruct4 ==
    /\ pc = "Ready"
    /\ \E e1 \in Operands, e2 \in Operands, e3 \in Operands, e4 \in Operands :
           Call("CompositeConstruct", <<e1, e2, e3, e4>>,
                CompositeConstruct4(Emitter, e1, e2, e3, e4))

\* the vector is an operand of the block or the value the call before returned
CallCompositeExtract ==
    /\ pc \in {"Ready", "Returned"}
    /\ Len(emitted) < 2
    /\ \E vector \in Operands \cup (IF pc = "Returned" THEN {LastCall.ret} ELSE {}),
          element \in Elements :
           Call("CompositeExtract", <<vector, element>>,
                CompositeExtract(Emitter, vector, element))

CallConvertFToS ==
    /\ pc = "Ready"
    /\ \E bitsize \in BitSizes, value \in Operands :
           Call("ConvertFToS", <<bitsize, value>>, ConvertFToS(Emitter, bitsize, value))

CallConvertFToU ==
    /\ pc = "Ready"
    /\ \E bitsize \in BitSizes, value \in Operands :
           Call("ConvertFToU", <<bitsize, value>>, ConvertFToU(Emitter, bitsize, value))

CallConvertFToI ==
    /\ pc = "Ready"
    /\ \E bitsize \in BitSizes, is_signed \in BOOLEAN, value \in Operands :
           Call("ConvertFToI", <<bitsize, is_signed, value>>, ConvertFToI(Emitter, bitsize, is_signed, value))

(***************************************************************************)
(* IREmitter::Condition and IREmitter::ConvertU.  The helpers take the     *)
(* emitter as it is when they are entered and hand it on as they leave it. *)
(***************************************************************************)
FlowTests == {"T", "F", "EQ", "NE", "LT", "CSM_TA"}

Preds == {0, PT}

\* IREmitter::Imm1: an immediate, no instruction
Imm1(value) == [k |-> "imm1", n |-> IF value THEN 1 ELSE 0]

LogicalNot(P, value) == InstAs(P, "U1", "LogicalNot", <<value>>)

LogicalAnd(P, a, b) == InstAs(P, "U1", "LogicalAnd", <<a, b>>)

GetZFlag(P) == InstAs(P, "U1", "GetZFlag", <<>>)

GetPred(P, pred, is_negated) ==
    LET value == InstAs(P, "U1", "GetPred", <<PredOperand(pred)>>)
    IN  IF is_negated THEN LogicalNot(value.P, value.ret) ELSE value

GetFlowTest(P, flow_test) ==
    CASE flow_test = "T" -> [P |-> P, ret |-> Imm1(TRUE), type |-> "U1", thrown |-> ""]
      [] flow_test = "F" -> [P |-> P, ret |-> Imm1(FALSE), type |-> "U1", thrown |-> ""]
      [] flow_test = "EQ" -> GetZFlag(P)
      [] flow_test = "NE" -> LogicalNot(GetZFlag(P).P, GetZFlag(P).ret)
      [] OTHER -> Throw(P, "NotImplemented")

\* LogicalAnd(GetPred(pred, is_negated), GetFlowTest(*this, flow_test)): the two
\* arguments are evaluated in an order the language leaves to the compiler;
\* pred_first says that GetPred is evaluated first
Condition(P, pred, is_negated, flow_test, pred_first) ==
    IF pred_first
    THEN LET a == GetPred(P, pred, is_negated)
             b == GetFlowTest(a.P, flow_test)
         IN  IF b.thrown # "" THEN b ELSE LogicalAnd(b.P, a.ret, b.ret)
    ELSE LET b == GetFlowTest(P, flow_test)
         IN  IF b.thrown # "" THEN b
             ELSE LET a == GetPred(b.P, pred, is_negated)
                  IN  LogicalAnd(a.P, a.ret, b.ret)

ConvertU(P, result_bitsize, value) ==
    CASE result_bitsize = 32 /\ Type(P.insts, value) = "U32" ->
             [P |-> P, ret |-> value, type |-> "U32", thrown |-> ""]
      [] result_bitsize = 32 /\ Type(P.insts, value) = "U64" ->
             InstAs(P, "U32", "ConvertU32U64", <<value>>)
      [] result_bitsize = 64 /\ Type(P.insts, value) = "U32" ->
             InstAs(P, "U64", "ConvertU64U32", <<value>>)
      [] result_bitsize = 64 /\ Type(P.insts, value) = "U64" ->
             [P |-> P, ret |-> value, type |-> "U64", thrown |-> ""]
      [] OTHER -> Throw(P, "NotImplemented")

CallCondition ==
    /\ pc = "Ready"
    /\ \E pred \in Preds, is_negated \in BOOLEAN, flow_test \in FlowTests,
          pred_first \in BOOLEAN :
           Call("Condition", <<pred, is_negated, flow_test>>,
                Condition(Emitter, pred, is_negated, flow_test, pred_first))

CallConvertU ==
    /\ pc = "Ready"
    /\ \E result_bitsize \in BitSizes, value \in Operands :
           Call("ConvertU", <<result_bitsize, value>>, ConvertU(Emitter, result_bitsize, value))

EmitterInit ==
    \E ta \in ScalarTypes, tb \in ScalarTypes :
        LET P == Inst(Inst(EmptyProgram(1), 1, ParameterOpcode(ta), <<>>), 1,
                      ParameterOpcode(tb), <<>>)
        IN  /\ input = <<ta, tb>>
            /\ source = P.insts
            /\ insts = P.insts
            /\ list = P.list
            /\ inst_it = 0
            /\ pc = "Ready"
            /\ ctx = NoContext
            /\ objects = NoObjects
            /\ emitted = NoCall
            /\ PassIdle

EmitterNext ==
    \/ CallFPAdd
    \/ CallFPMul
    \/ CallFPFma
    \/ CallFPEqual
    \/ CallFPNotEqual
    \/ CallFPLessThan
    \/ CallFPGreaterThan
    \/ CallFPLessThanEqual
    \/ CallFPGreaterThanEqual
    \/ CallIAdd
    \/ CallISub
    \/ CallSelect
    \/ CallCompositeConstruct2
    \/ CallCompositeConstruct3
    \/ CallCompositeConstruct4
    \/ CallCompositeExtract
    \/ CallConvertFToS
    \/ CallConvertFToU
    \/ CallConvertFToI
    \/ CallCondition
    \/ CallConvertU

EmitterSpec == EmitterInit /\ [][EmitterNext]_vars

(***************************************************************************)
(* Vocabulary of the claims about the emit methods: the call just made,    *)
(* the types of its value operands, and the variant of each operation for  *)
(* each operand type as the claims name them.                              *)
(***************************************************************************)
Called(method) == emitted # <<>> /\ LastCall.method = method

\* the call threw InvalidArgument and the block is as it was before the call
Rejected ==
    /\ LastCall.thrown = "InvalidArgument"
    /\ IsEmpty(LastCall.ret)
    /\ Len(insts) = LastCall.before
    /\ list = <<[k \in 1..LastCall.before |-> k]>>

\* the call returned the value of exactly one instruction appended to the block
AppendedOne ==
    /\ LastCall.thrown = ""
    /\ Len(insts) = LastCall.before + 1
    /\ list = <<[k \in 1..LastCall.before + 1 |-> k]>>
    /\ LastCall.ret = InstRef(Len(insts))

\* the instruction the call appended
Appended == insts[Len(insts)]

FPArithmetic == {"FPAdd", "FPMul", "FPFma"}

FPComparisons ==
    {"FPEqual", "FPNotEqual", "FPLessThan", "FPGreaterThan", "FPLessThanEqual",
     "FPGreaterThanEqual"}

\* the methods with several value operands of one polymorphic type
MultiOperand == FPArithmetic \cup FPComparisons \cup {"IAdd", "ISub", "Select", "CompositeConstruct"}

\* the value operands of the call just made: not the FpControl, not the ordered flag,
\* not the condition of Select
ValueOperands ==
    CASE LastCall.method \in FPArithmetic \cup FPComparisons ->
             SubSeq(LastCall.args, 1, Len(LastCall.args) - 1)
      [] LastCall.method = "Select" -> SubSeq(LastCall.args, 2, 3)
      [] OTHER -> LastCall.args

OperandTypes == {Type(insts, ValueOperands[k]) : k \in 1..Len(ValueOperands)}

\* the common type of the value operands
CommonType == CHOOSE t \in OperandTypes : TRUE

Supported(method) ==
    CASE method \in FPArithmetic \cup FPComparisons -> {"F16", "F32", "F64"}
      [] method \in {"IAdd", "ISub"} -> {"U32", "U64"}
      [] method = "Select" -> {"U8", "U16", "U32", "U64", "F32"}
      [] method = "CompositeConstruct" -> {"U32", "F16", "F32", "F64"}

\* operation, operand type, element count (0: no composite), ordered, variant, result type
Variants ==
    {<<"FPAdd", "F16", 0, FALSE, "FPAdd16", "F16">>,
     <<"FPAdd", "F32", 0, FALSE, "FPAdd32", "F32">>,
     <<"FPAdd", "F64", 0, FALSE, "FPAdd64", "F64">>,
     <<"FPMul", "F16", 0, FALSE, "FPMul16", "F16">>,
     <<"FPMul", "F32", 0, FALSE, "FPMul32", "F32">>,
     <<"FPMul", "F64", 0, FALSE, "FPMul64", "F64">>,
     <<"FPFma", "F16", 0, FALSE, "FPFma16", "F16">>,
     <<"FPFma", "F32", 0, FALSE, "FPFma32", "F32">>,
     <<"FPFma", "F64", 0, FALSE, "FPFma64", "F64">>,
     <<"FPEqual", "F16", 0, TRUE, "FPOrdEqual16", "U1">>,
     <<"FPEqual", "F16", 0, FALSE, "FPUnordEqual16", "U1">>,
     <<"FPEqual", "F32", 0, TRUE, "FPOrdEqual32", "U1">>,
     <<"FPEqual", "F32", 0, FALSE, "FPUnordEqual32", "U1">>,
     <<"FPEqual", "F64", 0, TRUE, "FPOrdEqual64", "U1">>,
     <<"FPEqual", "F64", 0, FALSE, "FPUnordEqual64", "U1">>,
     <<"FPNotEqual", "F16", 0, TRUE, "FPOrdNotEqual16", "U1">>,
     <<"FPNotEqual", "F16", 0, FALSE, "FPUnordNotEqual16", "U1">>,
     <<"FPNotEqual", "F32", 0, TRUE, "FPOrdNotEqual32", "U1">>,
     <<"FPNotEqual", "F32", 0, FALSE, "FPUnordNotEqual32", "U1">>,
     <<"FPNotEqual", "F64", 0, TRUE, "FPOrdNotEqual64", "U1">>,
     <<"FPNotEqual", "F64", 0, FALSE, "FPUnordNotEqual64", "U1">>,
     <<"FPLessThan", "F16", 0, TRUE, "FPOrdLessThan16", "U1">>,
     <<"FPLessThan", "F16", 0, FALSE, "FPUnordLessThan16", "U1">>,
     <<"FPLessThan", "F32", 0, TRUE, "FPOrdLessThan32", "U1">>,
     <<"FPLessThan", "F32", 0, FALSE, "FPUnordLessThan32", "U1">>,
     <<"FPLessThan", "F64", 0, TRUE, "FPOrdLessThan64", "U1">>,
     <<"FPLessThan", "F64", 0, FALSE, "FPUnordLessThan64", "U1">>,
     <<"FPGreaterThan", "F16", 0, TRUE, "FPOrdGreaterThan16", "U1">>,
     <<"FPGreaterThan", "F16", 0, FALSE, "FPUnordGreaterThan16", "U1">>,
     <<"FPGreaterThan", "F32", 0, TRUE, "FPOrdGreaterThan32", "U1">>,
     <<"FPGreaterThan", "F32", 0, FALSE, "FPUnordGreaterThan32", "U1">>,
     <<"FPGreaterThan", "F64", 0, TRUE, "FPOrdGreaterThan64", "U1">>,
     <<"FPGreaterThan", "F64", 0, FALSE, "FPUnordGreaterThan64", "U1">>,
     <<"FPLessThanEqual", "F16", 0, TRUE, "FPOrdLessThanEqual16", "U1">>,
     <<"FPLessThanEqual", "F16", 0, FALSE, "FPUnordLessThanEqual16", "U1">>,
     <<"FPLessThanEqual", "F32", 0, TRUE, "FPOrdLessThanEqual32", "U1">>,
     <<"FPLessThanEqual", "F32", 0, FALSE, "FPUnordLessThanEqual32", "U1">>,
     <<"FPLessThanEqual", "F64", 0, TRUE, "FPOrdLessThanEqual64", "U1">>,
     <<"FPLessThanEqual", "F64", 0, FALSE, "FPUnordLessThanEqual64", "U1">>,
     <<"FPGreaterThanEqual", "F16", 0, TRUE, "FPOrdGreaterThanEqual16", "U1">>,
     <<"FPGreaterThanEqual", "F16", 0, FALSE, "FPUnordGreaterThanEqual16", "U1">>,
     <<"FPGreaterThanEqual", "F32", 0, TRUE, "FPOrdGreaterThanEqual32", "U1">>,
     <<"FPGreaterThanEqual", "F32", 0, FALSE, "FPUnordGreaterThanEqual32", "U1">>,
     <<"FPGreaterThanEqual", "F64", 0, TRUE, "FPOrdGreaterThanEqual64", "U1">>,
     <<"FPGreaterThanEqual", "F64", 0, FALSE, "FPUnordGreaterThanEqual64", "U1">>,
     <<"IAdd", "U32", 0, FALSE, "IAdd32", "U32">>,
     <<"IAdd", "U64", 0, FALSE, "IAdd64", "U64">>,
     <<"ISub", "U32", 0, FALSE, "ISub32", "U32">>,
     <<"ISub", "U64", 0, FALSE, "ISub64", "U64">>,
     <<"Select", "U8", 0, FALSE, "SelectU8", "U8">>,
     <<"Select", "U16", 0, FALSE, "SelectU16", "U16">>,
     <<"Select", "U32", 0, FALSE, "SelectU32", "U32">>,
     <<"Select", "U64", 0, FALSE, "SelectU64", "U64">>,
     <<"Select", "F32", 0, FALSE, "SelectF32", "F32">>,
     <<"CompositeConstruct", "U32", 2, FALSE, "CompositeConstructU32x2", "U32x2">>,
     <<"CompositeConstruct", "U32", 3, FALSE, "CompositeConstructU32x3", "U32x3">>,
     <<"CompositeConstruct", "U32", 4, FALSE, "CompositeConstructU32x4", "U32x4">>,
     <<"CompositeConstruct", "F16", 2, FALSE, "CompositeConstructF16x2", "F16x2">>,
     <<"CompositeConstruct", "F16", 3, FALSE, "CompositeConstructF16x3", "F16x3">>,
     <<"CompositeConstruct", "F16", 4, FALSE, "CompositeConstructF16x4", "F16x4">>,
     <<"CompositeConstruct", "F32", 2, FALSE, "CompositeConstructF32x2", "F32x2">>,
     <<"CompositeConstruct", "F32", 3, FALSE, "CompositeConstructF32x3", "F32x3">>,
     <<"CompositeConstruct", "F32", 4, FALSE, "CompositeConstructF32x4", "F32x4">>,
     <<"CompositeConstruct", "F64", 2, FALSE, "CompositeConstructF64x2", "F64x2">>,
     <<"CompositeConstruct", "F64", 3, FALSE, "CompositeConstructF64x3", "F64x3">>,
     <<"CompositeConstruct", "F64", 4, FALSE, "CompositeConstructF64x4", "F64x4">>}

\* vector type, element count, element type, the CompositeExtract variant for it
Vectors ==
    {<<"U32x2", 2, "U32", "CompositeExtractU32x2">>,
     <<"U32x3", 3, "U32", "CompositeExtractU32x3">>,
     <<"U32x4", 4, "U32", "CompositeExtractU32x4">>,
     <<"F16x2", 2, "F16", "CompositeExtractF16x2">>,
     <<"F16x3", 3, "F16", "CompositeExtractF16x3">>,
     <<"F16x4", 4, "F16", "CompositeExtractF16x4">>,
     <<"F32x2", 2, "F32", "CompositeExtractF32x2">>,
     <<"F32x3", 3, "F32", "CompositeExtractF32x3">>,
     <<"F32x4", 4, "F32", "CompositeExtractF32x4">>,
     <<"F64x2", 2, "F64", "CompositeExtractF64x2">>,
     <<"F64x3", 3, "F64", "CompositeExtractF64x3">>,
     <<"F64x4", 4, "F64", "CompositeExtractF64x4">>}

\* signed, destination bitsize, source type, the conversion, result type
Conversions ==
    {<<TRUE, 16, "F16", "ConvertS16F16", "U32">>,
     <<TRUE, 16, "F32", "ConvertS16F32", "U32">>,
     <<TRUE, 16, "F64", "ConvertS16F64", "U32">>,
     <<TRUE, 32, "F16", "ConvertS32F16", "U32">>,
     <<TRUE, 32, "F32", "ConvertS32F32", "U32">>,
     <<TRUE, 32, "F64", "ConvertS32F64", "U32">>,
     <<TRUE, 64, "F16", "ConvertS64F16", "U64">>,
     <<TRUE, 64, "F32", "ConvertS64F32", "U64">>,
     <<TRUE, 64, "F64", "ConvertS64F64", "U64">>,
     <<FALSE, 16, "F16", "ConvertU16F16", "U32">>,
     <<FALSE, 16, "F32", "ConvertU16F32", "U32">>,
     <<FALSE, 16, "F64", "ConvertU16F64", "U32">>,
     <<FALSE, 32, "F16", "ConvertU32F16", "U32">>,
     <<FALSE, 32, "F32", "ConvertU32F32", "U32">>,
     <<FALSE, 32, "F64", "ConvertU32F64", "U32">>,
     <<FALSE, 64, "F16", "ConvertU64F16", "U64">>,
     <<FALSE, 64, "F32", "ConvertU64F32", "U64">>,
     <<FALSE, 64, "F64", "ConvertU64F64", "U64">>}


(***************************************************************************)
(* C15.  As claimed: FPAdd(a, b) with operands of different types, F16     *)
(* with F32 for one, throws InvalidArgument and appends no instruction.    *)
(***************************************************************************)
C15_FPAddMismatch ==
    (Called("FPAdd") /\ Cardinality(OperandTypes) > 1) => Rejected

(***************************************************************************)
(* C16.  A call of FPMul, FPFma, FPEqual, FPNotEqual, FPLessThan,          *)
(* FPGreaterThan, FPLessThanEqual, FPGreaterThanEqual, IAdd, ISub, Select  *)
(* or CompositeConstruct (2, 3 or 4 elements) whose value operands do not  *)
(* all have one type throws InvalidArgument and appends no instruction.    *)
(***************************************************************************)
C16_MismatchRejected ==
    (/\ emitted # <<>>
     /\ LastCall.method \in MultiOperand \ {"FPAdd"}
     /\ Cardinality(OperandTypes) > 1) => Rejected

\* FPFma whose third operand alone differs from the other two
C16_Witness ==
    /\ Called("FPFma")
    /\ Type(insts, LastCall.args[1]) = Type(insts, LastCall.args[2])
    /\ Type(insts, LastCall.args[1]) # Type(insts, LastCall.args[3])
    /\ Rejected

(***************************************************************************)
(* C17.  A call of a multi-operand polymorphic emit whose value operands   *)
(* have one common type T: if the operation supports T, exactly one        *)
(* instruction is appended, its opcode is the variant of the operation     *)
(* for T (for the element count, for ordered or unordered), its operands   *)
(* are the value operands, and the result has type T, U1 for a comparison, *)
(* the vector of T for a composite; if not, the call throws                *)
(* InvalidArgument and appends nothing.                                    *)
(***************************************************************************)
\* element count of the call: 0 unless it constructs a composite
Elems == IF LastCall.method = "CompositeConstruct" THEN Len(LastCall.args) ELSE 0

\* the ordered flag of a comparison
Ordered ==
    IF LastCall.method \in FPComparisons THEN LastCall.args[Len(LastCall.args)] ELSE FALSE

\* the operands the appended instruction has to have
EmittedOperands == IF LastCall.method = "Select" THEN LastCall.args ELSE ValueOperands

VectorTypes == {v[1] : v \in Vectors}

\* the row of Vectors for a vector type
VectorOf(type) == CHOOSE v \in Vectors : v[1] = type

C18_ExtractChecked ==
    Called("CompositeExtract") =>
        LET vector == LastCall.args[1]
            element == LastCall.args[2]
            type == Type(insts, vector)
        IN  IF type \notin VectorTypes THEN Rejected
            ELSE IF element >= VectorOf(type)[2] THEN Rejected
            ELSE /\ AppendedOne
                 /\ Appended.op = VectorOf(type)[4]
                 /\ Appended.args = <<vector, Imm32(element)>>

\* an element index equal to the element count of the vector is rejected
C18_Witness ==
    /\ Called("CompositeExtract")
    /\ Type(insts, LastCall.args[1]) \in VectorTypes
    /\ LastCall.args[2] = VectorOf(Type(insts, LastCall.args[1]))[2]
    /\ Rejected

(***************************************************************************)
(* C19.  As claimed: for a composite of N elements e1 .. eN of type U32,   *)
(* F16, F32 or F64 and every k with 1 <= k <= N, CompositeExtract of the   *)
(* composite and k is accepted and denotes e_k.                            *)
(***************************************************************************)
\* the value an IR value denotes: the element of a constructed composite for an
\* extract from it (element indices count the operands from 0), itself otherwise
Denote(I, v) ==
    IF /\ IsInst(v)
       /\ I[v.n].op \in {w[4] : w \in Vectors}
       /\ IsInst(I[v.n].args[1])
       /\ ResultType(I[I[v.n].args[1].n].op) \in VectorTypes
       /\ I[I[v.n].args[1].n].op \notin {w[4] : w \in Vectors}
    THEN I[I[v.n].args[1].n].args[I[v.n].args[2].n + 1]
    ELSE v

\* the call just made extracts from the composite the call before constructed
ExtractOfConstruct ==
    /\ Len(emitted) = 2
    /\ emitted[1].method = "CompositeConstruct"
    /\ emitted[1].thrown = ""
    /\ LastCall.method = "CompositeExtract"
    /\ LastCall.args[1] = emitted[1].ret

C19_ExtractOneBased ==
    (ExtractOfConstruct /\ LastCall.args[2] \in 1..Len(emitted[1].args)) =>
        /\ LastCall.thrown = ""
        /\ Denote(insts, LastCall.ret) = emitted[1].args[LastCall.args[2]]

(***************************************************************************)
(* C19, amended.  For a composite of N elements e1 .. eN and every k with  *)
(* 0 <= k < N, CompositeExtract of the composite and k is accepted and     *)
(* denotes e_(k+1); every k >= N is rejected with InvalidArgument.         *)
(***************************************************************************)
C19_ExtractZeroBased ==
    ExtractOfConstruct =>
        IF LastCall.args[2] < Len(emitted[1].args)
        THEN /\ LastCall.thrown = ""
             /\ Denote(insts, LastCall.ret) = emitted[1].args[LastCall.args[2] + 1]
        ELSE Rejected

\* the first element extracted from a composite of two different values
C19_Witness ==
    /\ ExtractOfConstruct
    /\ emitted[1].args[1] # emitted[1].args[2]
    /\ LastCall.args[2] = 0
    /\ Denote(insts, LastCall.ret) = emitted[1].args[1]

(***************************************************************************)
(* C20.  ConvertFToI(bitsize, is_signed, value): for bitsize 16, 32 or 64  *)
(* and a value of type F16, F32 or F64 exactly one instruction is          *)
(* appended, ConvertS or ConvertU by is_signed, of the bitsize and the     *)
(* source type, with the value as operand; the result is a U32 for 16 and  *)
(* 32 bits and a U64 for 64; any other bitsize and any other source type   *)
(* throws InvalidArgument and appends nothing.                             *)
(***************************************************************************)
C20_ConvertFToI ==
    Called("ConvertFToI") =>
        LET bitsize == LastCall.args[1]
            is_signed == LastCall.args[2]
            value == LastCall.args[3]
        IN  IF bitsize \in {16, 32, 64} /\ Type(insts, value) \in {"F16", "F32", "F64"}
            THEN /\ AppendedOne
                 /\ Appended.args = <<value>>
                 /\ <<is_signed, bitsize, Type(insts, value), Appended.op, LastCall.type>>
                        \in Conversions
            ELSE Rejected

\* a signed conversion of an F32 to 16 bits
C20_Witness ==
    /\ Called("ConvertFToI")
    /\ LastCall.args[1] = 16
    /\ LastCall.args[2]
    /\ Type(insts, LastCall.args[3]) = "F32"
    /\ Appended.op = "ConvertS16F32"
    /\ LastCall.type = "U32"

(***************************************************************************)
(* The terminators of IR::IREmitter emitted in any order over a function's *)
(* blocks, one per block: Branch and BranchConditional patch the block's   *)
(* successors (Block::SetBranch, SetBranches) and the immediate            *)
(* predecessors of the labels.  `succ` holds the successors set so far,    *)
(* `emitted` the terminators in the order of their emission.               *)
(***************************************************************************)
\* blocks of the function the terminators are emitted for
NumBlocks == 2

EmitterBlocks == 1..NumBlocks

\* the program the emits have built
Emitted == [insts |-> insts, list |-> list, preds |-> preds]

\* blocks without a terminator yet
Open == {b \in EmitterBlocks : \A k \in 1..Len(emitted) : emitted[k].block # b}

\* the step of emitting a terminator in block b: P is the program afterwards,
\* branches what SetBranch / SetBranches stored
Terminate(b, op, branches, P) ==
    /\ insts' = P.insts
    /\ list' = P.list
    /\ preds' = P.preds
    /\ succ' = [succ EXCEPT ![b] = branches]
    /\ emitted' = Append(emitted, [block |-> b, op |-> op, branches |-> branches])
    /\ UNCHANGED <<input, source, post_order_blocks, ctx, objects, current_def, incomplete_phis,
                   sealed_blocks, pc, block_it, inst_it, stack, variable, seal_it,
                   imm_pred_it, created>>

EmitBranch ==
    /\ pc = "Emitting"
    /\ \E b \in Open, label \in EmitterBlocks :
           Terminate(b, "Branch", <<label>>, Branch(Emitted, b, label))

EmitBranchConditional ==
    /\ pc = "Emitting"
    /\ \E b \in Open, true_label \in EmitterBlocks, false_label \in EmitterBlocks :
           Terminate(b, "BranchConditional", <<true_label, false_label>>,
                     BranchConditional(Emitted, b, Imm32(1), true_label, false_label))

EmitReturn ==
    /\ pc = "Emitting"
    /\ \E b \in Open : Terminate(b, "Return", <<>>, Return(Emitted, b))

BranchInit ==
    /\ input = NumBlocks
    /\ source = <<>>
    /\ insts = EmptyProgram(NumBlocks).insts
    /\ list = EmptyProgram(NumBlocks).list
    /\ preds = EmptyProgram(NumBlocks).preds
    /\ succ = [b \in EmitterBlocks |-> <<>>]
    /\ post_order_blocks = <<>>
    /\ current_def = <<>>
    /\ incomplete_phis = <<>>
    /\ sealed_blocks = {}
    /\ pc = "Emitting"
    /\ block_it = 0
    /\ inst_it = 0
    /\ stack = <<>>
    /\ variable = Reg(RZ)
    /\ seal_it = 0
    /\ imm_pred_it = 0
    /\ created = {}
    /\ ctx = NoContext
    /\ objects = NoObjects
    /\ emitted = NoCall

BranchNext == EmitBranch \/ EmitBranchConditional \/ EmitReturn

BranchSpec == BranchInit /\ [][BranchNext]_vars

\* L is a successor of B
IsSuccessor(B, L) == \E k \in 1..Len(succ[B]) : succ[B][k] = L

\* the position in `emitted` of the terminator of block b
EmitIndex(b) == CHOOSE k \in 1..Len(emitted) : emitted[k].block = b

(***************************************************************************)
(* C21.  After any sequence of Branch and BranchConditional emits, one     *)
(* terminator per block: B is in the immediate-predecessor list of L       *)
(* exactly once if L is a successor of B and not at all otherwise (also    *)
(* when both labels of a conditional branch are one block), and every      *)
(* predecessor list is in the order in which the terminators were emitted. *)
(***************************************************************************)
C21_CfgConsistent ==
    \A L \in EmitterBlocks :
        /\ \A B \in EmitterBlocks :
               Cardinality({k \in 1..Len(preds[L]) : preds[L][k] = B})
                   = IF IsSuccessor(B, L) THEN 1 ELSE 0
        /\ \A j \in 1..Len(preds[L]) : \A k \in 1..Len(preds[L]) :
               j < k => EmitIndex(preds[L][j]) < EmitIndex(preds[L][k])

\* a block has two predecessors, the first emitted being the higher-numbered block,
\* and a conditional branch with both labels equal was emitted
C21_Witness ==
    /\ \E L \in EmitterBlocks : Len(preds[L]) = 2 /\ preds[L][1] > preds[L][2]
    /\ \E k \in 1..Len(emitted) :
           /\ emitted[k].op = "BranchConditional"
           /\ emitted[k].branches[1] = emitted[k].branches[2]

(***************************************************************************)
(* One call of Pass::ReadVariable from any state of the pass object: a     *)
(* control-flow graph, a set of sealed blocks, the definitions of one      *)
(* variable (of any of the eight kinds) and the block the read starts in.  *)
(* The steps are the actions of the work stack above; `input` keeps the    *)
(* call and `source` the program the call started from.                    *)
(***************************************************************************)
\* a variable of each kind, two goto variables
Kinds ==
    {Reg(1), Pred(0), ZeroFlagTag, SignFlagTag, CarryFlagTag, OverflowFlagTag,
     GotoVariable(0), GotoVariable(1), IndirectBranchVariable}

\* the graphs a read is started on: a triangle, a loop, an entry block with a
\* predecessor, a conditional branch with both labels the same, an unreachable block
ReadShapes ==
    {<< <<2, 3>>, <<3>>, <<>> >>,
     LoopShape,
     << <<2>>, <<1, 3>>, <<>> >>,
     << <<2, 2>>, <<1>> >>,
     << <<3>>, <<2, 3>>, <<>> >>}

\* the value a block defines the variable as, when it defines it: the same value in
\* blocks 1 and 3, another one in block 2
DefinedAs(b) == Imm32(b % 2)

ReadCalls ==
    UNION {[successors : {s}, sealed : SUBSET (1..Len(s)), defined : SUBSET (1..Len(s)),
            root : 1..Len(s), var : Kinds] : s \in ReadShapes}

ReadInit ==
    \E c \in ReadCalls : \E P \in {Translate(Description(c.successors,
                                                         [b \in 1..Len(c.successors) |-> <<>>],
                                                         NoCond(Len(c.successors))))} :
        LET n == Len(c.successors)
        IN  /\ input = c
            /\ source = [insts |-> P.insts, list |-> P.list,
                         current_def |-> [v \in {c.var} |->
                             [b \in 1..n |-> IF b \in c.defined THEN DefinedAs(b) ELSE Empty]],
                         incomplete_phis |-> [b \in 1..n |-> [v \in {c.var} |-> 0]]]
            /\ insts = P.insts
            /\ list = P.list
            /\ preds = P.preds
            /\ succ = c.successors
            /\ post_order_blocks = PostOrder(c.successors)
            /\ current_def = [v \in {c.var} |->
                                 [b \in 1..n |-> IF b \in c.defined THEN DefinedAs(b) ELSE Empty]]
            /\ incomplete_phis = [b \in 1..n |-> [v \in {c.var} |-> 0]]
            /\ sealed_blocks = c.sealed
            /\ pc = "ReadVariable"
            /\ block_it = 1
            /\ inst_it = 0
            /\ stack = <<ReadState(0), ReadState(c.root)>>
            /\ variable = c.var
            /\ seal_it = 1
            /\ imm_pred_it = 1
            /\ created = {}
            /\ ctx = NoContext
            /\ objects = NoObjects
            /\ emitted = NoCall

ReadNext ==
    \/ ReadStartDefined
    \/ ReadStartIncomplete
    \/ ReadStartOnePredecessor
    \/ ReadStackExhausted
    \/ ReadStartPhi
    \/ ReadSetValue
    \/ ReadPushPhiArgument

ReadSpec == ReadInit /\ [][ReadNext]_vars

\* the call has returned: only the sentinel frame is left, holding the result
Returned == pc = "ReadVariable" /\ Len(stack) = 1

(***************************************************************************)
(* read_variable as the recursive definition of Braun et al. that the      *)
(* work stack unrolls: (1) the block's definition, (2) in an unsealed      *)
(* block a new incomplete phi, (3) with one predecessor the predecessor's  *)
(* value, cached, (4) otherwise a new phi, written first, its operands     *)
(* read from the predecessors in order, then try_remove_trivial_phi, whose *)
(* result is written and returned.  `depth` is the number of frames the    *)
(* work stack holds at this call; a recursion as deep as the work stack    *)
(* can grow is reported as exhausted.                                      *)
(***************************************************************************)
RECURSIVE read_variable(_, _, _, _)
RECURSIVE add_phi_operands(_, _, _, _, _, _)
add_phi_operands(M, var, phi, block, k, depth) ==
    IF k > Len(preds[block]) THEN M
    ELSE LET R == read_variable(M, var, preds[block][k], depth + 1)
         IN  IF R.exhausted THEN R
             ELSE add_phi_operands([R EXCEPT !.insts = AddPhiOperand(@, phi, preds[block][k],
                                                                      R.result)],
                                   var, phi, block, k + 1, depth)

read_variable(M, var, block, depth) ==
    IF ~IsEmpty(M.current_def[var][block])
    THEN [M EXCEPT !.result = M.current_def[var][block]]
    ELSE IF block \notin sealed_blocks
    THEN LET phi == Len(M.insts) + 1
         IN  [PrependNewInst(M, block, 1, "Phi") EXCEPT
                 !.incomplete_phis[block][var] = phi,
                 !.current_def[var][block] = InstRef(phi),
                 !.result = InstRef(phi)]
    ELSE IF Len(preds[block]) = 1
    THEN IF depth >= MaxStack THEN [M EXCEPT !.exhausted = TRUE]
         ELSE LET R == read_variable(M, var, preds[block][1], depth + 1)
              IN  IF R.exhausted THEN R ELSE [R EXCEPT !.current_def[var][block] = R.result]
    ELSE LET phi == Len(M.insts) + 1
             M1 == [PrependNewInst(M, block, 1, "Phi") EXCEPT
                       !.current_def[var][block] = InstRef(phi)]
             M2 == add_phi_operands(M1, var, phi, block, 1, depth)
         IN  IF M2.exhausted THEN M2
             ELSE LET M3 == TryRemoveTrivialPhi(M2, phi, block, UndefOpcode(var))
                  IN  [M3 EXCEPT !.current_def[var][block] = M3.result]

\* the recursive read of the call the work stack is running
Recursive ==
    read_variable([insts |-> source.insts, list |-> source.list,
                   current_def |-> source.current_def,
                   incomplete_phis |-> source.incomplete_phis,
                   result |-> Empty, exhausted |-> FALSE],
                  input.var, input.root, Len(<<ReadState(0), ReadState(input.root)>>))

(***************************************************************************)
(* C24.  For every control-flow graph, sealed set and current_def the work *)
(* stack ReadVariable returns the value the recursive read_variable        *)
(* returns and leaves the same current_def, incomplete_phis, block lists   *)
(* and instructions (the phi nodes created and their operands, in order);  *)
(* its allocation fails exactly when the recursion exceeds the same depth. *)
(***************************************************************************)
C24_WorkStackEquivalent ==
    /\ Returned =>
          /\ ~Recursive.exhausted
          /\ stack[1].result = Recursive.result
          /\ current_def = Recursive.current_def
          /\ incomplete_phis = Recursive.incomplete_phis
          /\ insts = Recursive.insts
          /\ list = Recursive.list
    /\ pc = "BadAlloc" => Recursive.exhausted

\* a call has returned a phi that merges two values, one of them read through a
\* one-predecessor block that cached it
C24_Witness ==
    /\ Returned
    /\ IsInst(stack[1].result)
    /\ insts[stack[1].result.n].op = "Phi"
    /\ Len(insts[stack[1].result.n].args) = 2
    /\ \E b \in 1..Len(succ) :
           /\ b # input.root
           /\ b \notin input.defined
           /\ Len(preds[b]) = 1
           /\ ~IsEmpty(current_def[variable][b])

\* the Undef instructions the call created, each with the variable it was created for
CreatedUndefs == {c \in created : insts[c.inst].op \in UndefOpcodes}

(***************************************************************************)
(* C22.  As claimed: the Undef created for a phi without any operand is    *)
(* UndefU1 for predicates and the Z, S, C, O flags, and UndefU32 for       *)
(* registers, goto variables and the indirect-branch variable.             *)
(***************************************************************************)
C22_UndefByWidth ==
    \A c \in CreatedUndefs :
        insts[c.inst].op = IF c.var.kind \in {"Pred", "ZFlag", "SFlag", "CFlag", "OFlag"}
                           THEN "UndefU1"
                           ELSE "UndefU32"

(***************************************************************************)
(* C22, amended.  The Undef created for a phi without any operand is       *)
(* UndefU1 for predicates, the Z, S, C, O flags and goto variables (which  *)
(* the emitter reads and writes as U1), and UndefU32 for registers and the *)
(* indirect-branch variable.                                               *)
(***************************************************************************)
C22_UndefByType ==
    \A c \in CreatedUndefs :
        insts[c.inst].op = IF c.var.kind \in {"Pred", "ZFlag", "SFlag", "CFlag", "OFlag", "Goto"}
                           THEN "UndefU1"
                           ELSE "UndefU32"

\* the read of a goto variable returned the Undef created for its operand-less phi
C22_Witness ==
    /\ Returned
    /\ variable = GotoVariable(1)
    /\ IsInst(stack[1].result)
    /\ insts[stack[1].result.n].op = "UndefU1"
    /\ \E c \in CreatedUndefs : c.inst = stack[1].result.n /\ c.var = variable
    /\ \E c \in created : insts[c.inst].op = "Identity" /\ insts[c.inst].args = <<>>

(***************************************************************************)
(* C23.  RZ and PT are sinks.  A step that visits SetRegister on RZ or     *)
(* SetPred on PT changes no pass state (current_def, incomplete_phis,      *)
(* sealed_blocks) and no instruction; a step that visits GetRegister on RZ *)
(* or GetPred on PT leaves the Get instruction and every other instruction *)
(* untouched, starts no read and creates nothing.                          *)
(***************************************************************************)
\* VisitInst is at a Get* or Set* of a sink
VisitingSink ==
    /\ Visiting
    /\ insts[inst_it].op \in SetOpcodes \cup GetOpcodes
    /\ IsSourceSink(inst_it)

C23_SinksUntouched ==
    [][VisitingSink =>
          /\ UNCHANGED <<current_def, incomplete_phis, sealed_blocks, insts, list, created>>
          /\ pc' = "VisitBlock"
          /\ inst_it' = NextInst(list[CurrentBlock], inst_it)]_vars

\* the pass has finished on a program that writes RZ and PT and reads RZ: the
\* read of RZ is as the translator emitted it, and the pass holds nothing for the
\* sinks
C23_Witness ==
    /\ Finished
    /\ \E i \in 1..Len(Source.insts) : SourceInst(i).op = "SetRegister" /\ IsSourceSink(i)
    /\ \E i \in 1..Len(Source.insts) : SourceInst(i).op = "SetPred" /\ IsSourceSink(i)
    /\ \E i \in 1..Len(Source.insts) :
           /\ SourceInst(i).op = "GetRegister"
           /\ IsSourceSink(i)
           /\ insts[i].op = "GetRegister"
           /\ insts[i] = SourceInst(i)
    /\ \A b \in Blocks : IsEmpty(current_def[Reg(RZ)][b]) /\ IsEmpty(current_def[Pred(PT)][b])

(***************************************************************************)
(* C25.  Sealing protocol.  The sealed blocks are exactly the blocks of    *)
(* the traversal whose visit has ended (each block is visited once, so     *)
(* each is sealed once, and after every Get* of its own was replaced); a   *)
(* block is in sealed_blocks, and so treated as sealed by ReadVariable,    *)
(* only from the end of its SealBlock on; every phi recorded in            *)
(* incomplete_phis of a sealed block has one operand per immediate         *)
(* predecessor, in their order; and sealed_blocks never shrinks.           *)
(***************************************************************************)
\* the blocks whose visit (VisitBlock including SealBlock) has ended
VisitEnded ==
    {VisitOrder[k] : k \in 1..(IF Finished THEN block_it ELSE block_it - 1)}

C25_SealedState ==
    /\ sealed_blocks = VisitEnded
    /\ Finished => sealed_blocks = Visited
    /\ \A b \in sealed_blocks :
          /\ \A k \in 1..Len(SourceList(b)) :
                IsSourceGet(SourceList(b)[k]) => insts[SourceList(b)[k]].op = "Identity"
          /\ \A v \in Variables :
                incomplete_phis[b][v] # 0 =>
                    insts[incomplete_phis[b][v]].phi_blocks = preds[b]
    /\ (pc = "SealBlock" /\ seal_it > Len(IncompleteVariables(CurrentBlock))) =>
          \A v \in Variables :
              incomplete_phis[CurrentBlock][v] # 0 =>
                  /\ Len(insts[incomplete_phis[CurrentBlock][v]].args) = Len(preds[CurrentBlock])
                  /\ insts[incomplete_phis[CurrentBlock][v]].phi_blocks = preds[CurrentBlock]

C25_SealingProtocol ==
    /\ []C25_SealedState
    /\ [][/\ sealed_blocks \subseteq sealed_blocks'
          /\ Cardinality(sealed_blocks') <= Cardinality(sealed_blocks) + 1]_vars

\* a loop header with an incomplete phi has been sealed, its phi holding one operand
\* per predecessor, while the latch is not sealed yet
C25_Witness ==
    /\ input.succ = LoopShape
    /\ 2 \in sealed_blocks
    /\ 3 \notin sealed_blocks
    /\ \E v \in Variables :
           /\ incomplete_phis[2][v] # 0
           /\ Len(insts[incomplete_phis[2][v]].args) = 2

(***************************************************************************)
(* C26.  As claimed: at the end of the pass every phi node that is still   *)
(* referenced has at least two distinct operands other than itself.        *)
(***************************************************************************)
\* the distinct values phi p merges, itself left out
DistinctOperands(p) ==
    {Resolve(insts, insts[p].args[k]) : k \in 1..Len(insts[p].args)} \ {InstRef(p)}

RemainingPhis == UNION {PhisOf(b) : b \in Blocks}

C26_NoTrivialPhiRemains ==
    Finished => \A p \in RemainingPhis :
                    insts[p].uses > 0 => Cardinality(DistinctOperands(p)) >= 2

(***************************************************************************)
(* C27.  As claimed: once SealBlock has eliminated an incomplete phi p, no *)
(* ReadVariable started afterwards yields p in any of its frames, and no   *)
(* operand added afterwards refers to p (the use count of p, which counts  *)
(* the operands that refer to it, does not grow).                          *)
(***************************************************************************)
\* the incomplete phis SealBlock's AddPhiOperands has replaced by another value
EliminatedBySeal ==
    {p \in 1..Len(insts) :
        /\ insts[p].op = "Identity"
        /\ \E b \in Blocks : \E v \in Variables : incomplete_phis[b][v] = p}

C27_ReadsAvoidEliminated ==
    \A p \in EliminatedBySeal :
        \A k \in 1..Len(stack) : stack[k].result # InstRef(p)

C27_NoUseOfEliminated ==
    \A p \in EliminatedBySeal : insts'[p].uses <= insts[p].uses

C27_EliminatedPhiForgotten ==
    /\ []C27_ReadsAvoidEliminated
    /\ [][C27_NoUseOfEliminated]_vars

(***************************************************************************)
(* C28.  Over a whole run at most one phi node and at most one Undef is    *)
(* created per (variable, block), each placed in that block; a step of     *)
(* ReadVariable that finds current_def[v][B] present creates nothing in B  *)
(* but the Undef that replaces the operand-less phi of its own frame; and  *)
(* a step changes current_def of no variable but the one being read or     *)
(* written.                                                                *)
(***************************************************************************)
\* the records of the instructions created for (v, b) as an Undef / as a phi node
CreatedUndefsFor(v, b) ==
    {c \in created : c.var = v /\ c.block = b /\ insts[c.inst].op \in UndefOpcodes}

CreatedPhisFor(v, b) ==
    {c \in created : c.var = v /\ c.block = b /\ insts[c.inst].op \notin UndefOpcodes}

C28_OnePerPair ==
    /\ \A v \in Variables : \A b \in Blocks :
          /\ Cardinality(CreatedUndefsFor(v, b)) <= 1
          /\ Cardinality(CreatedPhisFor(v, b)) <= 1
    /\ \A c \in created :
          /\ c.var \in Variables
          /\ c.block \in Blocks
          /\ insts[c.inst].op \in UndefOpcodes \cup {"Phi", "Identity"}
          /\ \E k \in 1..Len(list[c.block]) : list[c.block][k] = c.inst

\* the variables whose current_def this step changes
Touched == {v \in Variables : current_def'[v] # current_def[v]}

C28_StepCreation ==
    \A c \in created' \ created :
        (Reading /\ ~IsEmpty(current_def[c.var][c.block])) =>
            /\ Back(Machine).pc = "PushPhiArgument"
            /\ c.block = Back(Machine).block
            /\ current_def[c.var][c.block] = InstRef(Back(Machine).phi)
            /\ insts'[c.inst].op \in UndefOpcodes
            /\ insts'[Back(Machine).phi].op = "Identity"

C28_StepWrites ==
    /\ Reading => Touched \subseteq {variable}
    /\ (Visiting /\ insts[inst_it].op \in SetOpcodes) =>
          Touched \subseteq {VariableOf(insts[inst_it])}
    /\ ~(Reading \/ (Visiting /\ insts[inst_it].op \in SetOpcodes)) => Touched = {}

C28_OwnMaps ==
    /\ []C28_OnePerPair
    /\ [][C28_StepCreation /\ C28_StepWrites]_vars

\* a phi node and an Undef were created for one register in one block that reads it
\* twice, and another variable has a definition of its own
C28_Witness ==
    /\ Finished
    /\ \E v \in Variables : \E b \in Blocks :
          /\ Cardinality(CreatedUndefsFor(v, b)) = 1
          /\ Cardinality(CreatedPhisFor(v, b)) = 1
          /\ Cardinality({k \in 1..Len(SourceList(b)) :
                            /\ IsSourceGet(SourceList(b)[k])
                            /\ VariableOf(SourceInst(SourceList(b)[k])) = v}) >= 2
          /\ \E w \in Variables \ {v} : \E x \in Blocks : ~IsEmpty(current_def[w][x])

(***************************************************************************)
(* ScopedRegister of the GLASM image emitter.  objects holds the storage   *)
(* of the ScopedRegister objects of a function (the slots of its locals,   *)
(* temporaries and returned pairs), ctx.reg_alloc the registers the        *)
(* RegAlloc of the EmitContext has handed out, and emitted the calls of    *)
(* AllocReg and FreeReg in the order they were made.  An exception starts  *)
(* the unwinding, which destroys every object that is alive.               *)
(***************************************************************************)
MaxObjects == 3

NumRegs == 2

MaxCalls == 4

Slots == 1..MaxObjects

Regs == 1..NumRegs

\* storage that holds no object
NoObject == [alive |-> FALSE, reg_alloc |-> FALSE, reg |-> 0]

\* the objects, the allocator and the calls made, as one value the members work on
World == [objects |-> objects, reg_alloc |-> ctx.reg_alloc, calls |-> emitted]

\* RegAlloc::AllocReg handing out register r, which is not in use
AllocReg(W, r) ==
    [W EXCEPT !.reg_alloc = @ \cup {r},
              !.calls = Append(@, [call |-> "AllocReg", reg |-> r])]

\* RegAlloc::FreeReg
FreeReg(W, r) ==
    [W EXCEPT !.reg_alloc = @ \ {r},
              !.calls = Append(@, [call |-> "FreeReg", reg |-> r])]

\* ScopedRegister() = default; the members are reg_alloc{} and Register reg
DefaultConstructor(W, o) ==
    [W EXCEPT !.objects[o] = [alive |-> TRUE, reg_alloc |-> FALSE, reg |-> 0]]

\* ScopedRegister(RegAlloc&), AllocReg returning r
Constructor(W, o, r) ==
    [AllocReg(W, r) EXCEPT !.objects[o] = [alive |-> TRUE, reg_alloc |-> TRUE, reg |-> r]]

\* ~ScopedRegister
Destructor(W, o) ==
    LET W1 == IF W.objects[o].reg_alloc THEN FreeReg(W, W.objects[o].reg) ELSE W
    IN  [W1 EXCEPT !.objects[o] = NoObject]

\* ScopedRegister(ScopedRegister&& rhs)
MoveConstructor(W, o, rhs) ==
    LET exchanged == W.objects[rhs].reg_alloc
        W1 == [W EXCEPT !.objects[rhs].reg_alloc = FALSE]
    IN  [W1 EXCEPT !.objects[o] = [alive |-> TRUE, reg_alloc |-> exchanged,
                                   reg |-> W1.objects[rhs].reg]]

\* operator=(ScopedRegister&& rhs): the FreeReg of the own register, then
\* reg_alloc = std::exchange(rhs.reg_alloc, nullptr), then reg = rhs.reg
MoveAssignment(W, o, rhs) ==
    LET W1 == IF W.objects[o].reg_alloc THEN FreeReg(W, W.objects[o].reg) ELSE W
        exchanged == W1.objects[rhs].reg_alloc
        W2 == [W1 EXCEPT !.objects[rhs].reg_alloc = FALSE]
        W3 == [W2 EXCEPT !.objects[o].reg_alloc = exchanged]
    IN  [W3 EXCEPT !.objects[o].reg = W3.objects[rhs].reg]

\* the step that leaves the world W behind, at position p
Leave(W, p) ==
    /\ objects' = W.objects
    /\ ctx' = [ctx EXCEPT !.reg_alloc = W.reg_alloc]
    /\ emitted' = W.calls
    /\ pc' = p
    /\ UNCHANGED <<cfg, ir, current_def, incomplete_phis, sealed_blocks, block_it, inst_it,
                   stack, variable, seal_it, imm_pred_it, created>>

Running == pc = "Running" /\ Len(emitted) < MaxCalls

Free == Regs \ ctx.reg_alloc

Unused == {o \in Slots : ~objects[o].alive}

Alive == {o \in Slots : objects[o].alive}

\* ScopedRegister x;
DeclareDefault ==
    /\ Running
    /\ \E o \in Unused : Leave(DefaultConstructor(World, o), "Running")

\* ScopedRegister x{ctx.reg_alloc}; AllocReg throws when every register is in use
DeclareScoped ==
    /\ Running
    /\ \E o \in Unused :
          IF Free = {} THEN Leave(World, "Unwinding")
          ELSE \E r \in Free : Leave(Constructor(World, o, r), "Running")

\* ScopedRegister x{std::move(y)};
DeclareMoved ==
    /\ Running
    /\ \E o \in Unused, rhs \in Alive : Leave(MoveConstructor(World, o, rhs), "Running")

\* x = std::move(y);
Assign ==
    /\ Running
    /\ \E o \in Alive, rhs \in Alive : Leave(MoveAssignment(World, o, rhs), "Running")

\* the end of the scope of one object
EndOfScope ==
    /\ pc = "Running"
    /\ \E o \in Alive : Leave(Destructor(World, o), "Running")

\* AllocOffsetsRegs: `return {}` or `return {ctx.reg_alloc, ctx.reg_alloc}`; the
\* members of the pair are constructed in order, and when the second AllocReg
\* throws the first member is destroyed
CallAllocOffsetsRegs ==
    /\ Running
    /\ \E first \in Unused, second \in Unused, offset2_empty \in BOOLEAN :
          /\ first < second
          /\ IF offset2_empty
             THEN Leave(DefaultConstructor(DefaultConstructor(World, first), second), "Running")
             ELSE IF Free = {} THEN Leave(World, "Unwinding")
             ELSE \E r1 \in Free :
                     LET W1 == Constructor(World, first, r1)
                     IN  IF Free \ {r1} = {} THEN Leave(Destructor(W1, first), "Unwinding")
                         ELSE \E r2 \in Free \ {r1} :
                                 Leave(Constructor(W1, second, r2), "Running")

\* Coord: the ScopedRegister of the returned pair is move-constructed from the
\* local scoped_reg (immediate coordinates) or from the temporary ScopedRegister{},
\* which is destroyed at the return
CallCoord ==
    /\ Running
    /\ \E member \in Unused, local \in Unused, immediate \in BOOLEAN :
          /\ member # local
          /\ IF ~immediate
             THEN Leave(Destructor(MoveConstructor(DefaultConstructor(World, local),
                                                   member, local), local), "Running")
             ELSE IF Free = {} THEN Leave(World, "Unwinding")
             ELSE \E r \in Free :
                     Leave(Destructor(MoveConstructor(Constructor(World, local, r),
                                                      member, local), local), "Running")

\* an exception thrown by the code between the declarations
Throws ==
    /\ Running
    /\ Alive # {}
    /\ Leave(World, "Unwinding")

\* stack unwinding destroys the objects that are alive
Unwind ==
    /\ pc = "Unwinding"
    /\ \E o \in Alive : Leave(Destructor(World, o), "Unwinding")

\* the exception is caught after every object was destroyed
Caught ==
    /\ pc = "Unwinding"
    /\ Alive = {}
    /\ Leave(World, "Running")

ScopedInit ==
    /\ input = MaxObjects
    /\ source = <<>>
    /\ insts = <<>>
    /\ list = <<>>
    /\ preds = <<>>
    /\ succ = <<>>
    /\ post_order_blocks = <<>>
    /\ current_def = <<>>
    /\ incomplete_phis = <<>>
    /\ sealed_blocks = {}
    /\ pc = "Running"
    /\ block_it = 0
    /\ inst_it = 0
    /\ stack = <<>>
    /\ variable = Reg(RZ)
    /\ seal_it = 0
    /\ imm_pred_it = 0
    /\ created = {}
    /\ ctx = [code |-> <<>>, defined |-> {}, reg_alloc |-> {}]
    /\ objects = [o \in Slots |-> NoObject]
    /\ emitted = NoCall

ScopedNext ==
    \/ DeclareDefault
    \/ DeclareScoped
    \/ DeclareMoved
    \/ Assign
    \/ EndOfScope
    \/ CallAllocOffsetsRegs
    \/ CallCoord
    \/ Throws
    \/ Unwind
    \/ Caught

ScopedSpec == ScopedInit /\ [][ScopedNext]_vars

\* the registers that, after the first n calls, were obtained and not yet released
RECURSIVE HeldAfter(_)
HeldAfter(n) ==
    IF n = 0 THEN {}
    ELSE IF emitted[n].call = "AllocReg" THEN HeldAfter(n - 1) \cup {emitted[n].reg}
         ELSE HeldAfter(n - 1) \ {emitted[n].reg}

\* the objects that own register r
Owners(r) == {o \in Alive : objects[o].reg_alloc /\ objects[o].reg = r}

(***************************************************************************)
(* C29.  As claimed: every FreeReg releases a register that was obtained   *)
(* from AllocReg and not released since; every register that is obtained   *)
(* and not yet released is owned by exactly one object, and no object owns *)
(* any other register, so that each register is released once when its     *)
(* owner is destroyed and all are released when no object is left.         *)
(***************************************************************************)
C29_ReleasedOnce ==
    \A n \in 1..Len(emitted) :
        emitted[n].call = "FreeReg" => emitted[n].reg \in HeldAfter(n - 1)

C29_OneOwner ==
    /\ \A r \in HeldAfter(Len(emitted)) : Cardinality(Owners(r)) = 1
    /\ \A o \in Alive : objects[o].reg_alloc => objects[o].reg \in HeldAfter(Len(emitted))

C29_ScopedRegister == C29_ReleasedOnce /\ C29_OneOwner

(***************************************************************************)
(* C30.  As claimed: a call of an IREmitter method that throws             *)
(* InvalidArgument or NotImplemented leaves the block as it was: no        *)
(* instruction is appended and the instructions are the ones of before the *)
(* call.                                                                   *)
(***************************************************************************)
\* this step is a call that throws InvalidArgument or NotImplemented
Fails ==
    /\ Len(emitted') = Len(emitted) + 1
    /\ emitted'[Len(emitted')].thrown \in {"InvalidArgument", "NotImplemented"}

C30_FailureLeavesBlock == [][Fails => insts' = insts /\ list' = list]_vars

====
